---- MODULE Spec2Model ----
(***************************************************************************)
(* IsoLens: guest agent (core/agent/isolens_agent.py) and host             *)
(* orchestrator (core/controller/sandbox_orchestrator.py,                  *)
(* core/gateway/analysis_routes.py) as state machines.                     *)
(*                                                                         *)
(* Spec      guest agent: the single-threaded HTTP server, the background  *)
(*           detonation threads it spawns, the screenshot capture loop.    *)
(* ArtifactSpec  Spec plus the screenshots the capture loop writes.         *)
(* LiveSpec  Spec with weak fairness on every thread's own steps.          *)
(***************************************************************************)
EXTENDS Integers, Sequences, FiniteSets, TLC

\* ------------------------------------------------------------------ bounds
MaxCount == 2       \* cap on execution_count, and so on concurrent commands
MaxShots == 1       \* screenshots ever captured
MaxSubmits == 2     \* submit requests the gateway receives
TimeoutSpan == 2    \* run_analysis timeouts: MinTimeout..MinTimeout+TimeoutSpan

\* ------------------------------------------------------- program constants
MinTimeout == 10        \* submit_analysis: timeout < 10 is rejected
MaxTimeout == 300       \* submit_analysis: timeout > 300 is rejected
DefaultTimeout == 60    \* submit_analysis / run_analysis default
PollInterval == 5       \* run_analysis: poll_interval=5
GraceSeconds == 300     \* run_analysis: max_wait=timeout + 300

\* --------------------------------------------------------------- constants
IDLE == "idle"
EXECUTING == "executing"
COLLECTING == "collecting"
ERROR == "error"
None == "None"

Statuses == {IDLE, EXECUTING, COLLECTING, ERROR}

\* Values a client can send as body["filename"]:
\*   "a.exe"     a string naming a file staged in the shared folder
\*   "gone.exe"  a string naming no file of the shared folder
\*   "#123"      a JSON number (truthy, not a string)
\*   None        key absent / empty string
Filenames == {"a.exe", "gone.exe", "#123"}
IsStr(f) == f \in {"a.exe", "gone.exe"}
ShareFiles == {"a.exe"}

VARIABLES
  state,          \* AgentState: status, current_sample, last_error, execution_count
  srv,            \* the HTTPServer thread: the handler it is in, its locals
  statusWaiting,  \* a GET /api/status connection sits in the listen backlog
  bg,             \* background threads started by _post_execute
  disk,           \* screenshot files present under artifacts/screenshots
  captured,       \* ScreenshotCollector._captured_files
  shotRunning,    \* ScreenshotCollector capture loop running, stop event clear
  nshots,         \* screenshots taken so far (file names are unique)
  ackPre,         \* execution_count read before each acknowledged execute
  \* host: SandboxOrchestrator and the gateway's submit route
  current,        \* SandboxOrchestrator._current: the run whose result it holds
  result,         \* per run: the AnalysisResult (status, error)
  manifest,       \* per run: status written to analysis_manifest.json
  sub,            \* per submit request: where its coroutine is
  run,            \* per run: where the run_analysis thread is
  \* one activation of SandboxOrchestrator._poll_agent_until_done
  poll,
  \* one activation of IsoLensAgent._package_results inside execute_sample
  pkg,
  \* the artifacts directory under IsoLensAgent.cleanup / list_artifacts
  cln,
  \* one activation of IsoLensAgent._run_collectors
  rc,
  \* one activation of SysmonCollector._parse_sysmon_xml
  sm,
  \* one activation of ThreatAnalyzer.analyze_report
  ta,
  \* one LLM response under _parse_tool_json / _parse_summary_json
  pj,
  \* one call of a TOOL_LOADERS loader on a report directory
  ld,
  \* one string under _clean_json_response
  cj,
  \* one list under a _normalize_* helper
  nz,
  \* one undecodable summarizer response under _parse_summary_json
  fb,
  \* one screenshot_interval driving the guest and the host capture loops
  si,
  \* the run_analysis calls of one orchestrator and the clock they read
  ai,
  \* one run_analysis from the execute request on, and its screenshot task
  hs,
  \* one ScreenshotCollector: its stop event and its capture loop threads
  sc,
  \* the shared folder under _retrieve_results / _find_result_zip
  rt,
  \* one result package from the collectors to the host-side loaders
  lk,
  \* one Procmon CSV under ProcmonCollector._parse_procmon_csv
  pm

agentVars == <<state, srv, statusWaiting, bg, disk, captured, shotRunning,
               nshots, ackPre>>
hostVars == <<current, result, manifest, sub, run>>
pollVars == <<poll>>

vars == <<agentVars, hostVars, pollVars, pkg, cln, rc, sm, ta, pj,
    ld, cj, nz, fb, si, ai,
    hs, sc, rt, lk, pm>>

nonAgentVars == <<hostVars, pollVars, pkg, cln, rc, sm, ta, pj,
    ld, cj, nz, fb, si, ai,
    hs, sc, rt, lk, pm>>
nonHostVars == <<agentVars, pollVars, pkg, cln, rc, sm, ta, pj,
    ld, cj, nz, fb, si, ai,
    hs, sc, rt, lk, pm>>
nonPollVars == <<agentVars, hostVars, pkg, cln, rc, sm, ta, pj,
    ld, cj, nz, fb, si, ai,
    hs, sc, rt, lk, pm>>
nonPkgVars == <<agentVars, hostVars, pollVars, cln, rc, sm, ta, pj,
    ld, cj, nz, fb, si, ai,
    hs, sc, rt, lk, pm>>
nonClnVars == <<agentVars, hostVars, pollVars, pkg, rc, sm, ta, pj,
    ld, cj, nz, fb, si, ai,
    hs, sc, rt, lk, pm>>
nonRcVars == <<agentVars, hostVars, pollVars, pkg, cln, sm, ta, pj,
    ld, cj, nz, fb, si, ai,
    hs, sc, rt, lk, pm>>
nonSmVars == <<agentVars, hostVars, pollVars, pkg, cln, rc, ta, pj,
    ld, cj, nz, fb, si, ai,
    hs, sc, rt, lk, pm>>
nonTaVars == <<agentVars, hostVars, pollVars, pkg, cln, rc, sm, pj,
    ld, cj, nz, fb, si, ai,
    hs, sc, rt, lk, pm>>
nonPjVars == <<agentVars, hostVars, pollVars, pkg, cln, rc, sm, ta,
    ld, cj, nz, fb, si, ai,
    hs, sc, rt, lk, pm>>
nonLdVars == <<agentVars, hostVars, pollVars, pkg, cln, rc, sm, ta, pj,
    cj, nz, fb, si, ai,
    hs, sc, rt, lk, pm>>
nonCjVars == <<agentVars, hostVars, pollVars, pkg, cln, rc, sm, ta, pj,
    ld, nz, fb, si, ai,
    hs, sc, rt, lk, pm>>
nonNzVars == <<agentVars, hostVars, pollVars, pkg, cln, rc, sm, ta, pj,
    ld, cj, fb, si, ai,
    hs, sc, rt, lk, pm>>
nonFbVars == <<agentVars, hostVars, pollVars, pkg, cln, rc, sm, ta, pj,
    ld, cj, nz, si, ai,
    hs, sc, rt, lk, pm>>
nonSiVars == <<agentVars, hostVars, pollVars, pkg, cln, rc, sm, ta, pj,
    ld, cj, nz, fb, ai,
    hs, sc, rt, lk, pm>>
nonAiVars == <<agentVars, hostVars, pollVars, pkg, cln, rc, sm, ta, pj,
    ld, cj, nz, fb, si,
    hs, sc, rt, lk, pm>>
nonHsVars == <<agentVars, hostVars, pollVars, pkg, cln, rc, sm, ta, pj,
    ld, cj, nz, fb, si, ai,
    sc, rt, lk, pm>>
nonScVars == <<agentVars, hostVars, pollVars, pkg, cln, rc, sm, ta, pj,
    ld, cj, nz, fb, si, ai,
    hs, rt, lk, pm>>
nonRtVars == <<agentVars, hostVars, pollVars, pkg, cln, rc, sm, ta, pj,
    ld, cj, nz, fb, si, ai,
    hs, sc, lk, pm>>
nonLkVars == <<agentVars, hostVars, pollVars, pkg, cln, rc, sm, ta, pj,
    ld, cj, nz, fb, si, ai,
    hs, sc, rt, pm>>
nonPmVars == <<agentVars, hostVars, pollVars, pkg, cln, rc, sm, ta, pj,
    ld, cj, nz, fb, si, ai,
    hs, sc, rt, lk>>

Threads == 1..MaxCount

\* ---------------------------------------------------------------- AgentState
AgentStateInit ==
  [status |-> IDLE, current_sample |-> None, last_error |-> None,
   execution_count |-> 0]

set_executing(st, sample) ==
  [st EXCEPT !.status = EXECUTING, !.current_sample = sample]

set_collecting(st) == [st EXCEPT !.status = COLLECTING]

set_error_counting(st, error) ==
  [st EXCEPT !.status = ERROR, !.last_error = error,
             !.execution_count = @ + 1]

set_error(st, error) == [st EXCEPT !.status = ERROR, !.last_error = error]

set_idle_keepSample(st) ==
  [st EXCEPT !.status = IDLE, !.execution_count = @ + 1]

set_idle(st) ==
  [st EXCEPT !.status = IDLE, !.current_sample = None,
             !.execution_count = @ + 1]

\* the fields of to_dict() the claims read
to_dict(st) == [status |-> st.status, execution_count |-> st.execution_count]

\* ------------------------------------------------------------------ helpers
NoSnap == [status |-> None, execution_count |-> 0]
NoShot == [status |-> "none", files |-> {}, missing |-> {}]
SrvIdle == [pc |-> "accept", op |-> "none", filename |-> None, pre |-> 0,
            code |-> 0, body |-> "none", snap |-> NoSnap, shot |-> NoShot]
BgUnborn == [pc |-> "unborn", filename |-> None, shot |-> NoShot]

\* the handler has produced its response and writes it (_send_json)
Respond(op, code, body) ==
  [SrvIdle EXCEPT !.pc = "respond", !.op = op, !.code = code, !.body = body]

Live(t) == bg[t].pc # "unborn"
NumLive == Cardinality({t \in Threads : Live(t)})
FreeSlots == {t \in Threads : ~Live(t)}
NextSlot == CHOOSE t \in FreeSlots : \A u \in FreeSlots : t <= u

\* A new state-changing command is admitted only while the counter stays
\* within MaxCount whatever the commands already running do.
Room == state.execution_count + NumLive < MaxCount

AgentInit ==
  /\ state = AgentStateInit
  /\ srv = SrvIdle
  /\ statusWaiting = FALSE
  /\ bg = [t \in Threads |-> BgUnborn]
  /\ disk = {}
  /\ captured = {}
  /\ shotRunning = FALSE
  /\ nshots = 0
  /\ ackPre = {}

\* ------------------------------------------------------- GET /api/status
\* A client connects; the connection waits until the server thread accepts.
StatusArrive ==
  /\ ~statusWaiting
  /\ statusWaiting' = TRUE
  /\ UNCHANGED nonAgentVars
  /\ UNCHANGED <<state, srv, bg, disk, captured, shotRunning, nshots, ackPre>>

\* _get_status: snapshot under the lock.
GetStatus ==
  /\ srv.pc = "accept"
  /\ statusWaiting
  /\ statusWaiting' = FALSE
  /\ srv' = [Respond("status", 200, "snapshot") EXCEPT !.snap = to_dict(state)]
  /\ UNCHANGED nonAgentVars
  /\ UNCHANGED <<state, bg, disk, captured, shotRunning, nshots, ackPre>>

\* the response is on the wire; the server thread returns to accept()
SrvRespond ==
  /\ srv.pc = "respond"
  /\ srv' = SrvIdle
  /\ UNCHANGED nonAgentVars
  /\ UNCHANGED <<state, statusWaiting, bg, disk, captured, shotRunning,
                 nshots, ackPre>>

\* ------------------------------------------------------ POST /api/execute
\* The checks _post_execute makes before it touches anything: the HTTP code.
ExecuteAdmission_nocheck(status, f) ==
  IF f = None THEN 400 ELSE 200

ExecuteAdmission(status, f) ==
  IF status = EXECUTING THEN 409
  ELSE IF f = None THEN 400
  ELSE 200

\* The handler's own transition to executing, before the thread is started.
HandlerSetExecuting_skip(st, f) == st

HandlerSetExecuting(st, f) == set_executing(st, f)

\* status check, body read, filename validation
PostExecuteBegin(f) ==
  /\ srv.pc = "accept"
  /\ ~statusWaiting
  /\ LET code == ExecuteAdmission(state.status, f)
     IN  IF code # 200
           THEN srv' = [Respond("execute", code, "error") EXCEPT !.filename = f]
           ELSE /\ Room
                /\ srv' = [SrvIdle EXCEPT !.pc = "x_set", !.op = "execute",
                                          !.filename = f,
                                          !.pre = state.execution_count]
  /\ UNCHANGED nonAgentVars
  /\ UNCHANGED <<state, statusWaiting, bg, disk, captured, shotRunning,
                 nshots, ackPre>>

PostExecuteSet ==
  /\ srv.pc = "x_set"
  /\ state' = HandlerSetExecuting(state, srv.filename)
  /\ srv' = [srv EXCEPT !.pc = "x_spawn"]
  /\ UNCHANGED nonAgentVars
  /\ UNCHANGED <<statusWaiting, bg, disk, captured, shotRunning, nshots,
                 ackPre>>

\* threading.Thread(target=_bg, daemon=True).start()
PostExecuteSpawn ==
  /\ srv.pc = "x_spawn"
  /\ bg' = [bg EXCEPT ![NextSlot] = [BgUnborn EXCEPT !.pc = "check",
                                                     !.filename = srv.filename]]
  /\ srv' = [srv EXCEPT !.pc = "x_ack"]
  /\ UNCHANGED nonAgentVars
  /\ UNCHANGED <<state, statusWaiting, disk, captured, shotRunning, nshots,
                 ackPre>>

\* self._ok({"message": "Execution started ..."})
PostExecuteAck ==
  /\ srv.pc = "x_ack"
  /\ ackPre' = ackPre \cup {srv.pre}
  /\ srv' = [Respond("execute", 200, "started") EXCEPT
               !.filename = srv.filename, !.pre = srv.pre]
  /\ UNCHANGED nonAgentVars
  /\ UNCHANGED <<state, statusWaiting, bg, disk, captured, shotRunning,
                 nshots>>

\* ------------------------------------------------ ScreenshotCollector
\* collect(): sorted(set(_captured_files + on_disk)); "missing" records which
\* of the returned paths were not on disk when the result was returned.
ScreenshotCollect(cap, dsk) ==
  LET all_files == cap \cup dsk
  IN  IF all_files # {}
        THEN [status |-> "ok", files |-> all_files, missing |-> all_files \ dsk]
        ELSE [status |-> "no_data", files |-> {}, missing |-> {}]

\* one successful iteration of _capture_loop
CaptureShot ==
  /\ shotRunning
  /\ nshots < MaxShots
  /\ nshots' = nshots + 1
  /\ disk' = disk \cup {nshots + 1}
  /\ captured' = captured \cup {nshots + 1}
  /\ UNCHANGED nonAgentVars
  /\ UNCHANGED <<state, srv, statusWaiting, bg, shotRunning, ackPre>>

\* ------------------------------------------- IsoLensAgent.execute_sample
\* the statements inside the try block that can raise
RaisingPcs == {"launch", "shotstart", "wait", "collect", "package"}

BgGoto(t, pc) == bg' = [bg EXCEPT ![t].pc = pc]

\* the thread function returns (or dies): the thread is gone
BgExit(t) == bg' = [bg EXCEPT ![t] = BgUnborn]

\* if self.state.status == AgentState.EXECUTING: pass
BgCheck(t) ==
  /\ bg[t].pc = "check"
  /\ BgGoto(t, IF state.status = EXECUTING THEN "resolve" ELSE "setexec")
  /\ UNCHANGED nonAgentVars
  /\ UNCHANGED <<state, srv, statusWaiting, disk, captured, shotRunning,
                 nshots, ackPre>>

\* else: self.state.set_executing(filename)
BgSetExecuting(t) ==
  /\ bg[t].pc = "setexec"
  /\ state' = set_executing(state, bg[t].filename)
  /\ BgGoto(t, "resolve")
  /\ UNCHANGED nonAgentVars
  /\ UNCHANGED <<srv, statusWaiting, disk, captured, shotRunning, nshots,
                 ackPre>>

ResolveSample_lenient(f) == IF ~IsStr(f) THEN "raise" ELSE "present"

\* What os.path.join(share_path, filename) and os.path.isfile make of the
\* filename: "raise" (TypeError, outside the try), "absent" or "present".
ResolveSample(f) ==
  IF ~IsStr(f) THEN "raise"
  ELSE IF f \in ShareFiles THEN "present" ELSE "absent"

BgResolve(t) ==
  /\ bg[t].pc = "resolve"
  /\ LET r == ResolveSample(bg[t].filename)
     IN  \/ /\ r = "raise"
            /\ BgExit(t)
            /\ state' = state
         \/ /\ r = "absent"
            /\ state' = set_error(state, "not_found")
            /\ BgExit(t)
         \/ /\ r = "present"
            /\ BgGoto(t, "launch")
            /\ state' = state
  /\ UNCHANGED nonAgentVars
  /\ UNCHANGED <<srv, statusWaiting, disk, captured, shotRunning, nshots,
                 ackPre>>

\* steps 0-3: taskkill, copy2, wevtutil cl, Procmon start, tshark start,
\* then the sample is launched (schtasks / cmd /c start / os.startfile)
BgLaunch(t) ==
  /\ bg[t].pc = "launch"
  /\ BgGoto(t, "shotstart")
  /\ UNCHANGED nonAgentVars
  /\ UNCHANGED <<state, srv, statusWaiting, disk, captured, shotRunning,
                 nshots, ackPre>>

\* step 3b: screenshot_c.start_capture(interval)
BgShotStart(t) ==
  /\ bg[t].pc = "shotstart"
  /\ captured' = {}
  /\ shotRunning' = TRUE
  /\ BgGoto(t, "wait")
  /\ UNCHANGED nonAgentVars
  /\ UNCHANGED <<state, srv, statusWaiting, disk, nshots, ackPre>>

\* steps 4-4b: time.sleep(timeout) returns; screenshot_c.stop_capture();
\* network_c.stop_capture()
BgWaitStop(t) ==
  /\ bg[t].pc = "wait"
  /\ shotRunning' = FALSE
  /\ BgGoto(t, "setcoll")
  /\ UNCHANGED nonAgentVars
  /\ UNCHANGED <<state, srv, statusWaiting, disk, captured, nshots, ackPre>>

BgSetCollecting_skipCollect(t) ==
  /\ bg[t].pc = "setcoll"
  /\ state' = set_collecting(state)
  /\ BgGoto(t, "package")
  /\ UNCHANGED nonAgentVars
  /\ UNCHANGED <<srv, statusWaiting, disk, captured, shotRunning, nshots,
                 ackPre>>

\* step 5: self.state.set_collecting()
BgSetCollecting(t) ==
  /\ bg[t].pc = "setcoll"
  /\ state' = set_collecting(state)
  /\ BgGoto(t, "collect")
  /\ UNCHANGED nonAgentVars
  /\ UNCHANGED <<srv, statusWaiting, disk, captured, shotRunning, nshots,
                 ackPre>>

\* step 5: collection = self._run_collectors(sample_name=filename)
BgCollect(t) ==
  /\ bg[t].pc = "collect"
  /\ bg' = [bg EXCEPT ![t].pc = "package",
                      ![t].shot = ScreenshotCollect(captured, disk)]
  /\ UNCHANGED nonAgentVars
  /\ UNCHANGED <<state, srv, statusWaiting, disk, captured, shotRunning,
                 nshots, ackPre>>

\* step 6: self._package_results(filename, timeout, collection)
BgPackage(t) ==
  /\ bg[t].pc = "package"
  /\ bg' = [bg EXCEPT ![t].pc = "setidle", ![t].shot = NoShot]
  /\ UNCHANGED nonAgentVars
  /\ UNCHANGED <<state, srv, statusWaiting, disk, captured, shotRunning,
                 nshots, ackPre>>

\* self.state.set_idle(); return {"status": "complete", ...}
BgSetIdle(t) ==
  /\ bg[t].pc = "setidle"
  /\ state' = set_idle(state)
  /\ BgExit(t)
  /\ UNCHANGED nonAgentVars
  /\ UNCHANGED <<srv, statusWaiting, disk, captured, shotRunning, nshots,
                 ackPre>>

\* a statement inside the try block raises
BgRaise(t) ==
  /\ bg[t].pc \in RaisingPcs
  /\ bg' = [bg EXCEPT ![t].pc = "except", ![t].shot = NoShot]
  /\ UNCHANGED nonAgentVars
  /\ UNCHANGED <<state, srv, statusWaiting, disk, captured, shotRunning,
                 nshots, ackPre>>

\* except Exception as exc: self.state.set_error(str(exc)); return failed
BgExcept(t) ==
  /\ bg[t].pc = "except"
  /\ state' = set_error(state, "exception")
  /\ BgExit(t)
  /\ UNCHANGED nonAgentVars
  /\ UNCHANGED <<srv, statusWaiting, disk, captured, shotRunning, nshots,
                 ackPre>>

BgStep(t) ==
  \/ BgCheck(t) \/ BgSetExecuting(t) \/ BgResolve(t) \/ BgLaunch(t)
  \/ BgShotStart(t) \/ BgWaitStop(t) \/ BgSetCollecting(t) \/ BgCollect(t) \/ BgPackage(t) \/ BgSetIdle(t)
  \/ BgRaise(t) \/ BgExcept(t)

\* ------------------------------------------------------ POST /api/collect
\* _post_collect: the handler's own status check
PostCollectBegin ==
  /\ srv.pc = "accept"
  /\ ~statusWaiting
  /\ IF state.status = EXECUTING
       THEN srv' = Respond("collect", 409, "error")
       ELSE /\ Room
            /\ srv' = [SrvIdle EXCEPT !.pc = "c_check", !.op = "collect"]
  /\ UNCHANGED nonAgentVars
  /\ UNCHANGED <<state, statusWaiting, bg, disk, captured, shotRunning,
                 nshots, ackPre>>

\* collect_only: if status == EXECUTING: return {"error": ...}; the handler
\* wraps whatever collect_only returns with _ok (HTTP 200).
CollectOnlyCheck ==
  /\ srv.pc = "c_check"
  /\ IF state.status = EXECUTING
       THEN srv' = Respond("collect", 200, "error")
       ELSE srv' = [srv EXCEPT !.pc = "c_setcoll"]
  /\ UNCHANGED nonAgentVars
  /\ UNCHANGED <<state, statusWaiting, bg, disk, captured, shotRunning,
                 nshots, ackPre>>

CollectOnlySetCollecting ==
  /\ srv.pc = "c_setcoll"
  /\ state' = set_collecting(state)
  /\ srv' = [srv EXCEPT !.pc = "c_run"]
  /\ UNCHANGED nonAgentVars
  /\ UNCHANGED <<statusWaiting, bg, disk, captured, shotRunning, nshots,
                 ackPre>>

\* results = self._run_collectors()
CollectOnlyRun ==
  /\ srv.pc = "c_run"
  /\ srv' = [srv EXCEPT !.pc = "c_setidle",
                        !.shot = ScreenshotCollect(captured, disk)]
  /\ UNCHANGED nonAgentVars
  /\ UNCHANGED <<state, statusWaiting, bg, disk, captured, shotRunning,
                 nshots, ackPre>>

\* self.state.set_idle(); return {"collection": results}; self._ok(result)
CollectOnlySetIdle ==
  /\ srv.pc = "c_setidle"
  /\ state' = set_idle(state)
  /\ srv' = Respond("collect", 200, "collection")
  /\ UNCHANGED nonAgentVars
  /\ UNCHANGED <<statusWaiting, bg, disk, captured, shotRunning, nshots,
                 ackPre>>

\* ------------------------------------------------------ POST /api/cleanup
\* cleanup(): rmtree(artifacts_dir) + makedirs; no state guard
PostCleanup ==
  /\ srv.pc = "accept"
  /\ ~statusWaiting
  /\ disk' = {}
  /\ srv' = Respond("cleanup", 200, "cleaned")
  /\ UNCHANGED nonAgentVars
  /\ UNCHANGED <<state, statusWaiting, bg, captured, shotRunning, nshots,
                 ackPre>>

\* the steps the server thread takes inside a handler it has entered
SrvStep ==
  \/ PostExecuteSet \/ PostExecuteSpawn \/ PostExecuteAck
  \/ CollectOnlyCheck \/ CollectOnlySetCollecting \/ CollectOnlyRun
  \/ CollectOnlySetIdle \/ SrvRespond

\* ======================================================================
\* Host: POST /api/analysis/submit and SandboxOrchestrator.run_analysis
\* ======================================================================
Runs == 1..MaxSubmits

\* timeouts a client submits: below the range, the default, above the range
SubmitTimeouts == {MinTimeout - 1, DefaultTimeout, MaxTimeout + 1}

NoResult == [status |-> "none", error |-> FALSE]
SubNew == [pc |-> "new", resp |-> "none"]
RunIdle == [pc |-> "idle", raised |-> "none"]

HostInit ==
  /\ current = 0
  /\ result = [r \in Runs |-> NoResult]
  /\ manifest = [r \in Runs |-> "none"]
  /\ sub = [r \in Runs |-> SubNew]
  /\ run = [r \in Runs |-> RunIdle]

\* the guard submit_analysis puts before an analysis: the reply it gives, or
\* "accept". cur is orch.current_analysis (0 for None).
SubmitGuard(timeout, cur, res) ==
  IF timeout < MinTimeout \/ timeout > MaxTimeout THEN "bad_timeout"
  ELSE IF cur # 0 /\ res[cur].status = "running" THEN "in_progress"
  ELSE "accept"

\* submit_analysis up to its first await (file.read())
SubmitBegin(r, timeout) ==
  /\ sub[r].pc = "new"
  /\ LET g == SubmitGuard(timeout, current, result)
     IN  IF g = "accept"
           THEN sub' = [sub EXCEPT ![r].pc = "reading"]
           ELSE sub' = [sub EXCEPT ![r] = [pc |-> "done", resp |-> g]]
  /\ UNCHANGED nonHostVars
  /\ UNCHANGED <<current, result, manifest, run>>

\* the upload is saved; await asyncio.to_thread(orch.run_analysis, ...)
SubmitDispatch(r) ==
  /\ sub[r].pc = "reading"
  /\ sub' = [sub EXCEPT ![r].pc = "awaiting"]
  /\ run' = [run EXCEPT ![r].pc = "create"]
  /\ UNCHANGED nonHostVars
  /\ UNCHANGED <<current, result, manifest>>

\* saving the upload fails: "Failed to save uploaded file"
SubmitSaveFails(r) ==
  /\ sub[r].pc = "reading"
  /\ sub' = [sub EXCEPT ![r] = [pc |-> "done", resp |-> "save_failed"]]
  /\ UNCHANGED nonHostVars
  /\ UNCHANGED <<current, result, manifest, run>>

\* run_analysis returned: return _ok(result.to_dict())
SubmitReturn(r) ==
  /\ sub[r].pc = "awaiting"
  /\ run[r].pc = "done"
  /\ sub' = [sub EXCEPT ![r] = [pc |-> "done", resp |-> "ok"]]
  /\ UNCHANGED nonHostVars
  /\ UNCHANGED <<current, result, manifest, run>>

RunGoto(r, pc) == run' = [run EXCEPT ![r].pc = pc]

\* result = AnalysisResult(...) (status "pending"); self._current = result
RunCreate(r) ==
  /\ run[r].pc = "create"
  /\ result' = [result EXCEPT ![r] = [status |-> "pending", error |-> FALSE]]
  /\ current' = r
  /\ RunGoto(r, "mark")
  /\ UNCHANGED nonHostVars
  /\ UNCHANGED <<manifest, sub>>

\* try: result.status = "running"
RunMarkRunning(r) ==
  /\ run[r].pc = "mark"
  /\ result' = [result EXCEPT ![r].status = "running"]
  /\ RunGoto(r, "archive")
  /\ UNCHANGED nonHostVars
  /\ UNCHANGED <<current, manifest, sub>>

\* the steps of the try block after the status is set, in order
RunSteps == <<"archive", "stage", "execute", "poll", "retrieve", "complete">>
StepIndex(pc) == CHOOSE i \in 1..Len(RunSteps) : RunSteps[i] = pc

\* steps 1-5 each return normally: archive the sample, stage it in the share,
\* POST /api/execute answered ok, the polling returns, the results are
\* retrieved (an archive that cannot be unpacked is logged, not raised)
RunStepOk(r) ==
  /\ run[r].pc \in {"archive", "stage", "execute", "poll", "retrieve"}
  /\ RunGoto(r, RunSteps[StepIndex(run[r].pc) + 1])
  /\ UNCHANGED nonHostVars
  /\ UNCHANGED <<current, result, manifest, sub>>

\* a step raises: copy2 fails, the agent rejects or is unreachable
\* (RuntimeError / ConnectionError), TimeoutError from the polling, glob,
\* getmtime or the sysmon count fail
RunStepRaises(r) ==
  /\ run[r].pc \in {"archive", "stage", "execute", "poll", "retrieve"}
  /\ run' = [run EXCEPT ![r] = [pc |-> "except", raised |-> run[r].pc]]
  /\ UNCHANGED nonHostVars
  /\ UNCHANGED <<current, result, manifest, sub>>

\* result.status = "complete"
RunComplete(r) ==
  /\ run[r].pc = "complete"
  /\ result' = [result EXCEPT ![r].status = "complete"]
  /\ RunGoto(r, "manifest")
  /\ UNCHANGED nonHostVars
  /\ UNCHANGED <<current, manifest, sub>>

\* except Exception as exc: what the handler makes of the result
ExceptResult_errorOnly(res) == [res EXCEPT !.error = TRUE]

ExceptResult(res) == [status |-> "failed", error |-> TRUE]

RunExcept(r) ==
  /\ run[r].pc = "except"
  /\ result' = [result EXCEPT ![r] = ExceptResult(result[r])]
  /\ RunGoto(r, "manifest")
  /\ UNCHANGED nonHostVars
  /\ UNCHANGED <<current, manifest, sub>>

\* json.dump(result.to_dict()) to analysis_manifest.json; self._current = result
RunManifest(r) ==
  /\ run[r].pc = "manifest"
  /\ manifest' = [manifest EXCEPT ![r] = result[r].status]
  /\ current' = r
  /\ RunGoto(r, "done")
  /\ UNCHANGED nonHostVars
  /\ UNCHANGED <<result, sub>>

HostNext ==
  \/ \E r \in Runs, t \in SubmitTimeouts : SubmitBegin(r, t)
  \/ \E r \in Runs : SubmitDispatch(r)
  \/ \E r \in Runs : SubmitSaveFails(r)
  \/ \E r \in Runs : SubmitReturn(r)
  \/ \E r \in Runs : RunCreate(r)
  \/ \E r \in Runs : RunMarkRunning(r)
  \/ \E r \in Runs : RunStepOk(r)
  \/ \E r \in Runs : RunStepRaises(r)
  \/ \E r \in Runs : RunComplete(r)
  \/ \E r \in Runs : RunExcept(r)
  \/ \E r \in Runs : RunManifest(r)

\* ======================================================================
\* Host: SandboxOrchestrator._poll_agent_until_done(poll_interval, max_wait)
\* ======================================================================
\* timeouts run_analysis is called with
PollTimeouts == MinTimeout..(MinTimeout + TimeoutSpan)

\* what a probe of GET /api/status yields: a status, or "fail" (exception)
Replies == {IDLE, ERROR, EXECUTING, COLLECTING, "unknown", "fail"}

PollIdle == [pc |-> "idle", elapsed |-> 0, max_wait |-> 0, last |-> "none",
             probedAt |-> -1]

PollInit == poll = PollIdle

\* run_analysis: self._poll_agent_until_done(poll_interval=5,
\*                                           max_wait=timeout + 300)
PollStart(timeout) ==
  /\ poll.pc = "idle"
  /\ poll' = [PollIdle EXCEPT !.pc = "loop", !.max_wait = timeout + GraceSeconds]
  /\ UNCHANGED nonPollVars

\* while elapsed < max_wait
LoopCondition(elapsed, max_wait) == elapsed < max_wait

PollLoopTest ==
  /\ poll.pc = "loop"
  /\ poll' = [poll EXCEPT !.pc = IF LoopCondition(poll.elapsed, poll.max_wait)
                                   THEN "probe" ELSE "timeout"]
  /\ UNCHANGED nonPollVars

\* resp = self._agent_get("/api/status"); if status in ("idle", "error"): return
PollProbe(reply) ==
  /\ poll.pc = "probe"
  /\ poll' = [poll EXCEPT !.pc = IF reply \in {IDLE, ERROR} THEN "returned"
                                   ELSE "sleep",
                          !.last = reply, !.probedAt = poll.elapsed]
  /\ UNCHANGED nonPollVars

\* time.sleep(poll_interval); elapsed += poll_interval
PollSleep ==
  /\ poll.pc = "sleep"
  /\ poll' = [poll EXCEPT !.pc = "loop", !.elapsed = @ + PollInterval]
  /\ UNCHANGED nonPollVars

PollNext ==
  \/ \E t \in PollTimeouts : PollStart(t)
  \/ PollLoopTest
  \/ \E reply \in Replies : PollProbe(reply)
  \/ PollSleep

\* ======================================================================
\* Guest: IsoLensAgent._package_results, as execute_sample runs it while the
\* server thread keeps accepting POST /api/cleanup
\* ======================================================================
MaxReported == 2    \* files the collectors report to one packaging

\* files a collector can report, by name
ReportFiles == {"sysmon_summary.json", "procmon.pml", "procmon.csv",
                "capture.pcap", "shot.png", "PROCMON.PML"}
MetaFile == "metadata.json"
SummaryFile == "analysis_summary.json"

\* the text after the last dot of each name, dot included
Suffix ==
  [f \in ReportFiles \cup {MetaFile, SummaryFile} |->
     CASE f = "sysmon_summary.json" -> ".json"
       [] f = "procmon.pml" -> ".pml"
       [] f = "procmon.csv" -> ".csv"
       [] f = "capture.pcap" -> ".pcap"
       [] f = "shot.png" -> ".png"
       [] f = "PROCMON.PML" -> ".PML"
       [] f = MetaFile -> ".json"
       [] f = SummaryFile -> ".json"]

\* fpath.endswith((".pml", ".csv", ".pcap"))
SkippedByPolicy_pmlOnly(f) == Suffix[f] = ".pml"

SkippedByPolicy(f) == Suffix[f] \in {".pml", ".csv", ".pcap"}

\* os.path.join(self.artifacts_dir, name) and os.path.relpath(fpath, workdir)
ArtifactPath(f) == [root |-> "workdir", dir |-> "artifacts", name |-> f]
relpath(p) == [dir |-> p.dir, name |-> p.name]

\* the entries the zip loop writes for all_files, given what is on disk
ZipEntries(all_files, onDisk) ==
  {relpath(ArtifactPath(f)) : f \in {g \in all_files :
                                       g \in onDisk /\ ~SkippedByPolicy(g)}}

PkgIdle == [pc |-> "idle", collection |-> {}, disk |-> {}, zipDisk |-> {},
            archive |-> {}, shared |-> FALSE, copyFailed |-> FALSE,
            cleaned |-> FALSE]

PkgInit == pkg = PkgIdle

Collections == {c \in SUBSET ReportFiles : Cardinality(c) <= MaxReported}

\* execute_sample reaches step 6 with the collectors' reports; some of the
\* reported files are on disk
PkgStart(coll, onDisk) ==
  /\ pkg.pc = "idle"
  /\ onDisk \subseteq coll
  /\ pkg' = [PkgIdle EXCEPT !.pc = "summary", !.collection = coll,
                            !.disk = onDisk]
  /\ UNCHANGED nonPkgVars

\* summary_path = self._build_analysis_summary(...)
PkgBuildSummary ==
  /\ pkg.pc = "summary"
  /\ pkg' = [pkg EXCEPT !.pc = "meta", !.disk = @ \cup {SummaryFile}]
  /\ UNCHANGED nonPkgVars

\* with open(meta_path, "w"): json.dump(...)
PkgWriteMeta ==
  /\ pkg.pc = "meta"
  /\ pkg' = [pkg EXCEPT !.pc = "zip", !.disk = @ \cup {MetaFile}]
  /\ UNCHANGED nonPkgVars

\* the zip loop over all_files = reported files + meta_path + summary_path
PkgZip ==
  /\ pkg.pc = "zip"
  /\ pkg' = [pkg EXCEPT
       !.pc = "copy",
       !.zipDisk = pkg.disk,
       !.archive = ZipEntries(pkg.collection \cup {MetaFile, SummaryFile},
                              pkg.disk)]
  /\ UNCHANGED nonPkgVars

\* shutil.copy2(zip_path, share_dest)
PkgCopy ==
  /\ pkg.pc = "copy"
  /\ pkg' = [pkg EXCEPT !.pc = "return", !.shared = TRUE]
  /\ UNCHANGED nonPkgVars

\* except OSError: log.error("Failed to copy package to share")
PkgCopyFails ==
  /\ pkg.pc = "copy"
  /\ pkg' = [pkg EXCEPT !.pc = "return", !.copyFailed = TRUE]
  /\ UNCHANGED nonPkgVars

\* execute_sample: set_idle(); return {"status": "complete", ...}
PkgReturn ==
  /\ pkg.pc = "return"
  /\ pkg' = [pkg EXCEPT !.pc = "complete"]
  /\ UNCHANGED nonPkgVars

\* open() / json.dump / zf.write raise: execute_sample's except returns failed
PkgRaise ==
  /\ pkg.pc \in {"summary", "meta", "zip"}
  /\ pkg' = [pkg EXCEPT !.pc = "failed"]
  /\ UNCHANGED nonPkgVars

\* POST /api/cleanup handled by the server thread meanwhile: rmtree + makedirs
PkgCleanup ==
  /\ pkg.pc \in {"summary", "meta", "zip", "copy", "return"}
  /\ ~pkg.cleaned
  /\ pkg' = [pkg EXCEPT !.disk = {}, !.cleaned = TRUE]
  /\ UNCHANGED nonPkgVars

PkgNext ==
  \/ \E coll \in Collections : \E onDisk \in SUBSET coll : PkgStart(coll, onDisk)
  \/ PkgBuildSummary
  \/ PkgWriteMeta
  \/ PkgZip
  \/ PkgCopy
  \/ PkgCopyFails
  \/ PkgReturn
  \/ PkgRaise
  \/ PkgCleanup

\* ======================================================================
\* ======================================================================
\* Guest: IsoLensAgent.cleanup and list_artifacts on the artifacts directory
\* ======================================================================
MaxArtifacts == 3   \* distinct files that can appear under artifacts/
MaxCleanups == 2    \* cleanup() calls followed

ArtifactNames == 1..MaxArtifacts

\* files: what is under artifacts/; locked: the files a running tool
\* (Procmon, tshark) holds open; listed: list_artifacts() after the last
\* cleanup(); calls: cleanup() calls so far
ClnIdle == [pc |-> "idle", present |-> TRUE, files |-> {}, locked |-> {},
            listed |-> {}, calls |-> 0]

ClnInit == cln = ClnIdle

\* list_artifacts(): every file under the directory, [] if it is absent
list_artifacts(c) == IF c.present THEN c.files ELSE {}

\* shutil.rmtree(artifacts_dir, ignore_errors=True): what is left behind
rmtree_ignore_errors(files, locked) == files \cap locked

\* a collector or tool writes a file under artifacts/
ClnWrite(f) ==
  /\ f \notin cln.files
  /\ cln' = [cln EXCEPT !.pc = "idle", !.files = @ \cup {f}]
  /\ UNCHANGED nonClnVars

\* a running tool holds one of the files open (Procmon's backing .pml)
ClnLock(f) ==
  /\ f \in cln.files \ cln.locked
  /\ cln' = [cln EXCEPT !.pc = "idle", !.locked = @ \cup {f}]
  /\ UNCHANGED nonClnVars

\* the tool terminates and releases the file
ClnUnlock(f) ==
  /\ f \in cln.locked
  /\ cln' = [cln EXCEPT !.pc = "idle", !.locked = @ \ {f}]
  /\ UNCHANGED nonClnVars

\* cleanup(): if isdir: rmtree(ignore_errors=True); makedirs(exist_ok=True)
Cleanup ==
  /\ cln.calls < MaxCleanups
  /\ LET left == IF cln.present
                   THEN rmtree_ignore_errors(cln.files, cln.locked)
                   ELSE cln.files
         after == [cln EXCEPT !.files = left]
     IN  cln' = [after EXCEPT !.pc = "cleaned",
                              !.listed = list_artifacts(after),
                              !.calls = @ + 1]
  /\ UNCHANGED nonClnVars

ClnNext ==
  \/ \E f \in ArtifactNames : ClnWrite(f)
  \/ \E f \in ArtifactNames : ClnLock(f)
  \/ \E f \in ArtifactNames : ClnUnlock(f)
  \/ Cleanup

\* ======================================================================
\* Guest: IsoLensAgent._run_collectors over the collector registry
\* ======================================================================
\* self.collectors, in registry order
Registry == <<"sysmon", "procmon", "network", "screenshots", "tcpvcon",
              "handle">>

\* statuses a collector's collect() returns by itself
ReturnedStatuses == {"ok", "no_data", "unavailable", "error"}

\* results: the list built so far; raised: positions whose collect() raised
RcIdle == [pc |-> "idle", i |-> 1, results |-> <<>>, raised |-> {},
           cause |-> "none"]

RcInit == rc = RcIdle

\* except Exception as exc: results.append({collector, status error, error,
\* files: []})
OnCollectRaise_drop(results, name) == results

OnCollectRaise(results, name) ==
  Append(results, [collector |-> name, status |-> "error", error |-> TRUE])

\* results = []; for collector in self.collectors
RcStart ==
  /\ rc.pc = "idle"
  /\ rc' = [RcIdle EXCEPT !.pc = "loop"]
  /\ UNCHANGED nonRcVars

\* os.makedirs(output_dir); set_sample; results.append(collector.collect())
RcCollectReturns(status) ==
  /\ rc.pc = "loop"
  /\ rc.i <= Len(Registry)
  /\ rc' = [rc EXCEPT
       !.i = @ + 1,
       !.results = Append(@, [collector |-> Registry[rc.i],
                              status |-> status,
                              error |-> (status = "error")])]
  /\ UNCHANGED nonRcVars

\* collector.collect() raises an Exception
RcCollectRaises ==
  /\ rc.pc = "loop"
  /\ rc.i <= Len(Registry)
  /\ rc' = [rc EXCEPT
       !.i = @ + 1,
       !.results = OnCollectRaise(@, Registry[rc.i]),
       !.raised = @ \cup {rc.i}]
  /\ UNCHANGED nonRcVars

\* os.makedirs(collector.output_dir) raises: it is outside the try
RcMakedirsRaises ==
  /\ rc.pc = "loop"
  /\ rc.i <= Len(Registry)
  /\ rc' = [rc EXCEPT !.pc = "aborted", !.cause = "makedirs"]
  /\ UNCHANGED nonRcVars

\* return results
RcReturn ==
  /\ rc.pc = "loop"
  /\ rc.i > Len(Registry)
  /\ rc' = [rc EXCEPT !.pc = "returned"]
  /\ UNCHANGED nonRcVars

RcNext ==
  \/ RcStart
  \/ \E status \in ReturnedStatuses : RcCollectReturns(status)
  \/ RcCollectRaises
  \/ RcMakedirsRaises
  \/ RcReturn

\* ======================================================================
\* Guest: SysmonCollector._parse_sysmon_xml, the sample-process set
\* ======================================================================
MaxEvents == 3      \* events in one Sysmon stream

\* values of ProcessId / ParentProcessId; "" is a missing or empty field
PidValues == {"", "p1", "p2", "p3"}

\* an event, by the fields the process-tree code reads; seed: the sample's
\* basename occurs in the event's Image
EventKinds == [pid : PidValues, ppid : PidValues, seed : BOOLEAN]

EventStreams == UNION {[1..n -> EventKinds] : n \in 0..MaxEvents}

SmIdle == [pc |-> "idle", all_events |-> <<>>, sample_pids |-> {},
           changed |-> FALSE, passes |-> 0]

SmInit == sm = SmIdle

\* for ev in all_events: if sample in Image and pid: sample_pids.add(pid)
SeedPids(all_events) ==
  {all_events[i].pid : i \in {j \in 1..Len(all_events) :
                                all_events[j].seed /\ all_events[j].pid # ""}}

\* one run of "for ev in all_events" inside the while loop, from event i on:
\* the set it ends with and whether it set changed
RECURSIVE ForEvents(_, _, _, _)
ForEvents(all_events, i, pids, changed) ==
  IF i > Len(all_events) THEN [sample_pids |-> pids, changed |-> changed]
  ELSE LET ev == all_events[i]
       IN  IF ev.ppid \in pids /\ ev.pid # "" /\ ev.pid \notin pids
             THEN ForEvents(all_events, i + 1, pids \cup {ev.pid}, TRUE)
             ELSE ForEvents(all_events, i + 1, pids, changed)

\* while changed
LoopAgain_never(changed) == FALSE

LoopAgain(changed) == changed

\* the XML is parsed into all_events
SmStart ==
  /\ sm.pc = "idle"
  /\ \E events \in EventStreams :
       sm' = [SmIdle EXCEPT !.pc = "seed", !.all_events = events]
  /\ UNCHANGED nonSmVars

\* the seed loop; changed = True
SmSeed ==
  /\ sm.pc = "seed"
  /\ sm' = [sm EXCEPT !.pc = "loop", !.sample_pids = SeedPids(sm.all_events),
                      !.changed = TRUE]
  /\ UNCHANGED nonSmVars

\* one iteration of the while loop: changed = False; for ev in all_events
SmPass ==
  /\ sm.pc = "loop"
  /\ LoopAgain(sm.changed)
  /\ LET r == ForEvents(sm.all_events, 1, sm.sample_pids, FALSE)
     IN  sm' = [sm EXCEPT !.sample_pids = r.sample_pids,
                          !.changed = r.changed, !.passes = @ + 1]
  /\ UNCHANGED nonSmVars

\* the while loop exits
SmDone ==
  /\ sm.pc = "loop"
  /\ ~LoopAgain(sm.changed)
  /\ sm' = [sm EXCEPT !.pc = "done"]
  /\ UNCHANGED nonSmVars

SmNext ==
  \/ SmStart
  \/ SmSeed
  \/ SmPass
  \/ SmDone

\* ======================================================================
\* Host: ThreatAnalyzer.analyze_report, the per-tool agents and the summarizer
\* ======================================================================
\* get_tool_agents(), by tool name (agent name without "-analyzer"); every
\* one has a loader in TOOL_LOADERS
ToolAgents == <<"sysmon", "procmon", "network", "handle", "tcpvcon",
                "metadata">>
ToolNames == {ToolAgents[i] : i \in 1..Len(ToolAgents)}

\* ToolAnalysisResult(tool, agent_name): the dataclass defaults
DefaultResult == [verdict |-> "inconclusive", confidence |-> 0,
                  error |-> FALSE]

\* st: "unloaded", "nodata", "queued" (in parallel_tasks), "inflight"
\* (awaiting service.chat), "json" / "prose" / "badjson" (chat returned),
\* "raised"; has_data: what the tool's loader reported
ToolIdle == [st |-> "unloaded", has_data |-> TRUE, result |-> DefaultResult,
             chatCalls |-> 0]

TaIdle == [pc |-> "idle", i |-> 1, tool |-> [t \in ToolNames |-> ToolIdle],
           tool_results |-> <<>>, tool_responses |-> {},
           summarizerCalls |-> 0, inflightAtSummary |-> {},
           summarizerRaised |-> FALSE,
           status |-> "pending", error |-> FALSE,
           savedReport |-> FALSE, savedTools |-> {}]

TaInit == ta = TaIdle

\* if not has_data: default result, no dispatch; else parallel_tasks.append
Dispatch_always(has_data) == "queued"

Dispatch(has_data) == IF has_data THEN "queued" ELSE "nodata"

\* _run_tool_agent, except Exception: result.error = str(exc) on the fresh
\* result
ChatFailedResult_noError(res) == res

ChatFailedResult(res) == [res EXCEPT !.error = TRUE]

\* what the model's answer is, as far as _parse_tool_json tells them apart:
\* a JSON object with verdict and confidence; prose; a JSON object whose
\* confidence makes int() raise OverflowError after the verdict was stored
AnswerKinds == {"json", "prose", "badjson"}

\* _parse_tool_json (and, for "badjson", the except Exception around it)
ParsedResult(kind) ==
  CASE kind = "json" ->
         [verdict |-> "malicious", confidence |-> 90, error |-> FALSE]
    [] kind = "prose" ->
         [verdict |-> "suspicious", confidence |-> 40, error |-> TRUE]
    [] kind = "badjson" ->
         [verdict |-> "malicious", confidence |-> 0, error |-> TRUE]

\* await asyncio.gather(*coroutines, return_exceptions=True) resumes
GatherComplete_early(tools) == TRUE

GatherComplete(tools) ==
  \A t \in ToolNames : tools[t].st \notin {"queued", "inflight"}

\* report.status = "complete" if not report.error else "failed"
FinalStatus_complete(error) == "complete"

FinalStatus(error) == IF error THEN "failed" ELSE "complete"

\* the report directory is looked up
TaStart(dirExists) ==
  /\ ta.pc = "idle"
  /\ ta' = IF dirExists
             THEN [ta EXCEPT !.pc = "load", !.status = "running"]
             ELSE [ta EXCEPT !.pc = "returned", !.status = "failed",
                             !.error = TRUE]
  /\ UNCHANGED nonTaVars

\* one iteration of "for agent_def in get_tool_agents()"
TaLoad(has_data) ==
  /\ ta.pc = "load"
  /\ ta.i <= Len(ToolAgents)
  /\ LET t == ToolAgents[ta.i]
         d == Dispatch(has_data)
     IN  ta' = [ta EXCEPT
           !.i = @ + 1,
           !.tool[t].st = d,
           !.tool[t].has_data = has_data,
           !.tool_responses = IF d = "nodata" THEN @ \cup {t} ELSE @]
  /\ UNCHANGED nonTaVars

\* the loop is over; gather starts the coroutines (if parallel_tasks)
TaLoaded ==
  /\ ta.pc = "load"
  /\ ta.i > Len(ToolAgents)
  /\ ta' = [ta EXCEPT !.pc = "gather"]
  /\ UNCHANGED nonTaVars

\* a coroutine runs up to "await service.chat(...)"
TaToolCall(t) ==
  /\ ta.pc = "gather"
  /\ ta.tool[t].st = "queued"
  /\ ta' = [ta EXCEPT !.tool[t].st = "inflight", !.tool[t].chatCalls = @ + 1]
  /\ UNCHANGED nonTaVars

\* service.chat returns; _clean_json_response; _parse_tool_json
TaToolReturns(t, kind) ==
  /\ ta.tool[t].st = "inflight"
  /\ ta' = [ta EXCEPT !.tool[t].st = kind,
                      !.tool[t].result = ParsedResult(kind)]
  /\ UNCHANGED nonTaVars

\* service.chat raises (timeout, authentication, session error)
TaToolRaises(t) ==
  /\ ta.tool[t].st = "inflight"
  /\ ta' = [ta EXCEPT !.tool[t].st = "raised",
                      !.tool[t].result = ChatFailedResult(@)]
  /\ UNCHANGED nonTaVars

\* parallel_tasks / no_data_results, in loop order
WithData(t) == ta.tool[t].st # "nodata"
WithoutData(t) == ta.tool[t].st = "nodata"

\* gather has resumed: report.tool_results gets the parallel results in task
\* order, then no_data_results; tool_responses gets every raw_response
TaGatherDone ==
  /\ ta.pc = "gather"
  /\ GatherComplete(ta.tool)
  /\ ta' = [ta EXCEPT
       !.pc = "summarize",
       !.tool_results = SelectSeq(ToolAgents, WithData)
                          \o SelectSeq(ToolAgents, WithoutData),
       !.tool_responses = ToolNames]
  /\ UNCHANGED nonTaVars

\* await service.chat(agent_name="threat-summarizer", ...)
TaSummarizerCall ==
  /\ ta.pc = "summarize"
  /\ ta' = [ta EXCEPT
       !.pc = "summary_inflight",
       !.summarizerCalls = @ + 1,
       !.inflightAtSummary = {t \in ToolNames : ta.tool[t].st = "inflight"}]
  /\ UNCHANGED nonTaVars

\* the summarizer answers; _parse_summary_json: a JSON object or prose leave
\* report.error unset, an empty answer sets it
TaSummarizerReturns(kind) ==
  /\ ta.pc = "summary_inflight"
  /\ ta' = [ta EXCEPT !.pc = "finalize", !.error = (kind = "empty")]
  /\ UNCHANGED nonTaVars

\* except Exception as exc: report.error = "Summarizer failed: ..."
TaSummarizerRaises ==
  /\ ta.pc = "summary_inflight"
  /\ ta' = [ta EXCEPT !.pc = "finalize", !.error = TRUE,
                      !.summarizerRaised = TRUE]
  /\ UNCHANGED nonTaVars

TaFinalize ==
  /\ ta.pc = "finalize"
  /\ ta' = [ta EXCEPT !.pc = "save", !.status = FinalStatus(ta.error)]
  /\ UNCHANGED nonTaVars

\* _save_results: ai_report.json and one <tool>_analysis.json per result
TaSave ==
  /\ ta.pc = "save"
  /\ ta' = [ta EXCEPT
       !.pc = "returned",
       !.savedReport = TRUE,
       !.savedTools = {ta.tool_results[k] : k \in 1..Len(ta.tool_results)}]
  /\ UNCHANGED nonTaVars

TaNext ==
  \/ \E dirExists \in BOOLEAN : TaStart(dirExists)
  \/ \E has_data \in BOOLEAN : TaLoad(has_data)
  \/ TaLoaded
  \/ \E t \in ToolNames : TaToolCall(t)
  \/ \E t \in ToolNames, kind \in AnswerKinds : TaToolReturns(t, kind)
  \/ \E t \in ToolNames : TaToolRaises(t)
  \/ TaGatherDone
  \/ TaSummarizerCall
  \/ \E kind \in {"json", "prose", "empty"} : TaSummarizerReturns(kind)
  \/ TaSummarizerRaises
  \/ TaFinalize
  \/ TaSave

\* ======================================================================
\* Host: the numeric fields _parse_tool_json / _parse_summary_json read from
\* an LLM response
\* ======================================================================
ValueSpan == 2      \* how far outside 0..100 the model's numbers go

\* the three fields: ToolAnalysisResult.confidence, report.risk_score,
\* report.classification_confidence
NumericFields == {"confidence", "risk_score", "classification_confidence"}

\* JSON values the model can put in such a field: an integer, a float (given
\* in tenths), a string holding an integer, a string holding none, null, or
\* the key is missing
ModelNumbers == (0 - ValueSpan)..(100 + ValueSpan)
ModelValues ==
  [kind : {"int", "str"}, n : ModelNumbers]
    \cup [kind : {"float"}, n : {-15, -5, 5, 879, 1000, 1009}]
    \cup [kind : {"text", "null", "missing"}, n : {0}]

\* Python int(x): identity on an int, truncation toward zero on a float, the
\* number read from a numeric string; raises ValueError / TypeError otherwise
PyIntRaises(v) == v.kind \in {"text", "null"}

PyInt(v) ==
  CASE v.kind = "float" -> IF v.n >= 0 THEN v.n \div 10
                                        ELSE 0 - ((0 - v.n) \div 10)
    [] OTHER -> v.n

\* try: field = int(data.get(key, 0)); except (ValueError, TypeError): 0
ParseNumber(v) ==
  IF v.kind = "missing" THEN PyInt([kind |-> "int", n |-> 0])
  ELSE IF PyIntRaises(v) THEN 0
  ELSE PyInt(v)

PjIdle == [pc |-> "idle", field |-> "none",
           value |-> [kind |-> "missing", n |-> 0], out |-> 0]

PjInit == pj = PjIdle

\* json.loads returned the response object
PjReceive ==
  /\ pj.pc = "idle"
  /\ \E f \in NumericFields, v \in ModelValues :
       pj' = [PjIdle EXCEPT !.pc = "parse", !.field = f, !.value = v]
  /\ UNCHANGED nonPjVars

\* the field is stored in the result / report
PjParse ==
  /\ pj.pc = "parse"
  /\ pj' = [pj EXCEPT !.pc = "done", !.out = ParseNumber(pj.value)]
  /\ UNCHANGED nonPjVars

PjNext == PjReceive \/ PjParse

\* ======================================================================
\* Host: the TOOL_LOADERS loaders and the payload text they return
\* ======================================================================
LenSpan == 8        \* file lengths range LenSpan either side of the budget

MAX_TOOL_PAYLOAD_CHARS == 6000
MaxRows == 200              \* _read_csv_as_text: max_rows=200
TruncatedMarkerLen == 16    \* len("\n... [truncated]")
CsvMarkerLen == 25          \* len("... truncated (200+ rows)")

JsonLoaders == {"sysmon-analyzer", "procmon-analyzer", "network-analyzer",
                "metadata-analyzer"}
TextLoaders == {"handle-analyzer"}
CsvLoaders == {"tcpvcon-analyzer"}

\* len of the "No ... data" message each loader returns with has_data False
NoDataLen(loader) ==
  CASE loader = "sysmon-analyzer" -> 47
    [] loader = "procmon-analyzer" -> 48
    [] loader = "network-analyzer" -> 56
    [] loader = "handle-analyzer" -> 56
    [] loader = "tcpvcon-analyzer" -> 48
    [] loader = "metadata-analyzer" -> 40

\* What the backing file holds.  len: characters of json.dumps(data) for a
\* JSON loader (0: the file is missing, undecodable or holds a falsy value),
\* characters of the file for the text loader; rows x width for the CSV.
FileLens ==
  {0, 2} \cup ((MAX_TOOL_PAYLOAD_CHARS - LenSpan)..(MAX_TOOL_PAYLOAD_CHARS + LenSpan))
CsvRows == {0, 1, MaxRows - 1, MaxRows, MaxRows + 1}
CsvWidths == {0, 1, 28, 29, 30, 31}

FileContents(loader) ==
  IF loader \in CsvLoaders
    THEN [len : {0}, rows : CsvRows, width : CsvWidths]
    ELSE [len : FileLens, rows : {0}, width : {0}]

Min(a, b) == IF a <= b THEN a ELSE b

\* _truncate_json: raw if len(raw) <= max_chars else raw[:max_chars] + marker
truncate_json(rawLen) ==
  IF rawLen > MAX_TOOL_PAYLOAD_CHARS
    THEN MAX_TOOL_PAYLOAD_CHARS + TruncatedMarkerLen
    ELSE rawLen

\* _read_text: f.read(max_chars)
read_text(fileLen) == Min(fileLen, MAX_TOOL_PAYLOAD_CHARS)

\* _read_csv_as_text: at most max_rows rows joined by "\n", then the marker
\* line; every row of the file is "width" characters once re-joined by ","
read_csv_as_text(rows, width) ==
  IF rows > MaxRows
    THEN MaxRows * width + MaxRows + CsvMarkerLen
    ELSE IF rows = 0 THEN 0 ELSE rows * width + (rows - 1)

\* the loader's (payload_text, has_data), the text given by its length
Load(loader, c) ==
  LET n == IF loader \in JsonLoaders THEN (IF c.len = 0 THEN 0 ELSE truncate_json(c.len))
           ELSE IF loader \in TextLoaders THEN read_text(c.len)
           ELSE read_csv_as_text(c.rows, c.width)
  IN IF n = 0 THEN [len |-> NoDataLen(loader), has_data |-> FALSE]
              ELSE [len |-> n, has_data |-> TRUE]

LdIdle == [pc |-> "idle", loader |-> "none",
           content |-> [len |-> 0, rows |-> 0, width |-> 0],
           out |-> [len |-> 0, has_data |-> FALSE]]

LdInit == ld = LdIdle

\* loader(report_dir) is called on a report directory
LdCall ==
  /\ ld.pc = "idle"
  /\ \E loader \in JsonLoaders \cup TextLoaders \cup CsvLoaders :
       \E c \in FileContents(loader) :
         ld' = [LdIdle EXCEPT !.pc = "loading", !.loader = loader, !.content = c]
  /\ UNCHANGED nonLdVars

LdReturn ==
  /\ ld.pc = "loading"
  /\ ld' = [ld EXCEPT !.pc = "done", !.out = Load(ld.loader, ld.content)]
  /\ UNCHANGED nonLdVars

LdNext == LdCall \/ LdReturn

\* ======================================================================
\* Host: _clean_json_response on the text of an LLM response
\* ======================================================================
MaxChars == 4       \* tokens in one response text

\* A response text is a sequence of tokens: the three-backtick fence, the two
\* whitespace characters, the two braces and one other character.
Fence == "FENCE"   \* the three backticks, one token
Whitespace == {" ", "\n"}
Tokens == {Fence, " ", "\n", "{", "}", "a"}

RECURSIVE TextsOfLen(_)
TextsOfLen(n) ==
  IF n = 0 THEN {<<>>}
  ELSE {Append(s, c) : s \in TextsOfLen(n - 1), c \in Tokens}

Texts == UNION {TextsOfLen(n) : n \in 0..MaxChars}

\* str.strip()
RECURSIVE lstrip(_)
lstrip(s) ==
  IF s # <<>> /\ Head(s) \in Whitespace THEN lstrip(Tail(s)) ELSE s

RECURSIVE rstrip(_)
rstrip(s) ==
  IF s # <<>> /\ s[Len(s)] \in Whitespace
    THEN rstrip(SubSeq(s, 1, Len(s) - 1))
    ELSE s

strip(s) == rstrip(lstrip(s))

\* str.find / str.rfind of one character: 0-based index, -1 when absent
find(s, c) ==
  IF \E i \in 1..Len(s) : s[i] = c
    THEN (CHOOSE i \in 1..Len(s) :
            s[i] = c /\ \A j \in 1..(i - 1) : s[j] # c) - 1
    ELSE -1

rfind(s, c) ==
  IF \E i \in 1..Len(s) : s[i] = c
    THEN (CHOOSE i \in 1..Len(s) :
            s[i] = c /\ \A j \in (i + 1)..Len(s) : s[j] # c) - 1
    ELSE -1

startswith_fence(s) == s # <<>> /\ Head(s) = Fence
endswith_fence(s) == s # <<>> /\ s[Len(s)] = Fence

\* the body of "if text.startswith(<fence>):"
unfence(text) ==
  LET first_nl == find(text, "\n")
      t1 == IF first_nl > 0 THEN SubSeq(text, first_nl + 2, Len(text)) ELSE text
      t2 == IF endswith_fence(t1) THEN SubSeq(t1, 1, Len(t1) - 1) ELSE t1
  IN strip(t2)

\* the brace extraction: text[brace_start:brace_end + 1]
extract_object(text) ==
  LET brace_start == find(text, "{")
      brace_end == rfind(text, "}")
  IN IF brace_start >= 0 /\ brace_end > brace_start
       THEN SubSeq(text, brace_start + 1, brace_end + 1)
       ELSE text

clean_json_response(raw) ==
  LET text == strip(raw)
  IN extract_object(IF startswith_fence(text) THEN unfence(text) ELSE text)

CjIdle == [pc |-> "idle", raw |-> <<>>, once |-> <<>>, twice |-> <<>>]

CjInit == cj = CjIdle

\* a response text arrives
CjReceive ==
  /\ cj.pc = "idle"
  /\ \E raw \in Texts : cj' = [CjIdle EXCEPT !.pc = "raw", !.raw = raw]
  /\ UNCHANGED nonCjVars

\* _clean_json_response(raw)
CjClean ==
  /\ cj.pc = "raw"
  /\ cj' = [cj EXCEPT !.pc = "cleaned", !.once = clean_json_response(cj.raw)]
  /\ UNCHANGED nonCjVars

\* _clean_json_response applied to its own result
CjCleanAgain ==
  /\ cj.pc = "cleaned"
  /\ cj' = [cj EXCEPT !.pc = "done", !.twice = clean_json_response(cj.once)]
  /\ UNCHANGED nonCjVars

CjNext == CjReceive \/ CjClean \/ CjCleanAgain

\* ======================================================================
\* Host: the _normalize_* helpers on a list taken from an LLM response
\* ======================================================================
MaxItems == 2       \* items in one list

\* JSON values are written as strings: "a" is a short string, "LONG" a string
\* of more than 80 characters and "LONG80" its first 80 characters; "#7" is
\* the number 7 and "#null" is null; Absent marks a key a dict does not have.
Absent == "#absent"
StrValues == {"a", "LONG"}
JsonValues == StrValues \cup {"#7", "#null"}

\* str(x)
str(x) == CASE x = "#7" -> "7" [] x = "#null" -> "None" [] OTHER -> x

\* item[:80]
first80(x) == IF x = "LONG" THEN "LONG80" ELSE x

AllKeys == {"source", "severity", "description", "text", "indicator", "type",
            "value", "id", "technique_id", "name", "tactic", "priority",
            "action", "extra"}

Normalizers == {"tool_findings", "tool_iocs", "findings", "iocs", "mitre",
                "recommendations"}

\* the keys of the dict each normalizer builds
ShapeKeys(n) ==
  CASE n = "tool_findings" -> {"severity", "indicator", "description"}
    [] n = "tool_iocs" -> {"type", "value"}
    [] n = "findings" -> {"source", "severity", "description"}
    [] n = "iocs" -> {"type", "severity", "value"}
    [] n = "mitre" -> {"id", "name", "tactic", "description"}
    [] n = "recommendations" -> {"priority", "action"}

\* the keys each normalizer reads
ReadKeys(n) ==
  ShapeKeys(n) \cup
    CASE n \in {"findings", "recommendations"} -> {"text"}
      [] n = "mitre" -> {"technique_id"}
      [] OTHER -> {}

\* a dict is a function on AllKeys, Absent where it has no such key
Dict(keys, v) == [k \in AllKeys |-> IF k \in keys THEN v ELSE Absent]
NoDict == Dict({}, Absent)
KeysOf(d) == {k \in AllKeys : d[k] # Absent}

\* list items: a dict holding any of the keys the helper reads (numbers as
\* values), a dict holding every key (strings as values), a string, or any
\* other value
Items(n) ==
  {[kind |-> "dict", d |-> Dict(keys, "#7"), s |-> Absent] :
      keys \in SUBSET ReadKeys(n)}
    \cup {[kind |-> "dict", d |-> Dict(AllKeys, "a"), s |-> Absent]}
    \cup {[kind |-> "str", d |-> NoDict, s |-> v] : v \in StrValues}
    \cup {[kind |-> "other", d |-> NoDict, s |-> "#7"]}

Lists(n) == UNION {[1..len -> Items(n)] : len \in 0..MaxItems}

get_required(item, key, default) == item.d[key]

\* item.get(key, default)
get(item, key, default) ==
  IF item.d[key] # Absent THEN item.d[key] ELSE default

\* the dict literal: the given keys with the given values
Obj(f) ==
  [kind |-> "dict", s |-> Absent,
   d |-> [k \in AllKeys |-> IF k \in DOMAIN f THEN f[k] ELSE Absent]]

\* what each helper appends for a dict item and for a str item
FromDict(n, item) ==
  CASE n = "tool_findings" ->
         Obj([severity |-> str(get(item, "severity", "medium")),
              indicator |-> str(get(item, "indicator", "")),
              description |-> str(get(item, "description", ""))])
    [] n = "tool_iocs" ->
         Obj([type |-> str(get(item, "type", "unknown")),
              value |-> str(get(item, "value", ""))])
    [] n = "findings" ->
         Obj([source |-> str(get(item, "source", "")),
              severity |-> str(get(item, "severity", "medium")),
              description |->
                str(get(item, "description", get(item, "text", "")))])
    [] n = "iocs" ->
         Obj([type |-> str(get(item, "type", "unknown")),
              severity |-> str(get(item, "severity", "medium")),
              value |-> str(get(item, "value", ""))])
    [] n = "mitre" ->
         Obj([id |-> str(get(item, "id", get(item, "technique_id", ""))),
              name |-> str(get(item, "name", "")),
              tactic |-> str(get(item, "tactic", "")),
              description |-> str(get(item, "description", ""))])
    [] n = "recommendations" ->
         Obj([priority |-> str(get(item, "priority", "medium")),
              action |-> str(get(item, "action", get(item, "text", "")))])

FromStr(n, item) ==
  CASE n = "tool_findings" ->
         Obj([severity |-> "medium", indicator |-> first80(item.s),
              description |-> item.s])
    [] n = "tool_iocs" -> Obj([type |-> "unknown", value |-> item.s])
    [] n = "findings" ->
         Obj([source |-> "", severity |-> "medium", description |-> item.s])
    [] n = "iocs" ->
         Obj([type |-> "unknown", severity |-> "medium", value |-> item.s])
    [] n = "mitre" ->
         Obj([id |-> "", name |-> item.s, tactic |-> "", description |-> ""])
    [] n = "recommendations" ->
         Obj([priority |-> "medium", action |-> item.s])

\* the loop: dict and str items are appended in order, the rest is dropped
RECURSIVE normalize(_, _)
normalize(n, items) ==
  IF items = <<>> THEN <<>>
  ELSE LET item == Head(items)
           rest == normalize(n, Tail(items))
       IN CASE item.kind = "dict" -> <<FromDict(n, item)>> \o rest
            [] item.kind = "str" -> <<FromStr(n, item)>> \o rest
            [] OTHER -> rest

NzIdle == [pc |-> "idle", fn |-> "none", items |-> <<>>,
           once |-> <<>>, twice |-> <<>>]

NzInit == nz = NzIdle

\* a list taken from the response is handed to one helper
NzReceive ==
  /\ nz.pc = "idle"
  /\ \E n \in Normalizers : \E items \in Lists(n) :
       nz' = [NzIdle EXCEPT !.pc = "received", !.fn = n, !.items = items]
  /\ UNCHANGED nonNzVars

NzNormalize ==
  /\ nz.pc = "received"
  /\ nz' = [nz EXCEPT !.pc = "normalized", !.once = normalize(nz.fn, nz.items)]
  /\ UNCHANGED nonNzVars

\* the helper applied to its own result
NzNormalizeAgain ==
  /\ nz.pc = "normalized"
  /\ nz' = [nz EXCEPT !.pc = "done", !.twice = normalize(nz.fn, nz.once)]
  /\ UNCHANGED nonNzVars

NzNext == NzReceive \/ NzNormalize \/ NzNormalizeAgain

\* ======================================================================
\* Host: _parse_summary_json on a summarizer response json.loads rejects
\* ======================================================================
\* ToolAnalysisResult.verdict after parsing; "other" is any further string
Verdicts == {"malicious", "suspicious", "benign", "inconclusive", "other"}

\* raw_json.strip() is non-empty ("prose") or empty ("blank")
UndecodableKinds == {"prose", "blank"}

Count(verdict, v) == Cardinality({t \in DOMAIN verdict : verdict[t] = v})

\* the risk inferred from the tool results already parsed
FallbackRisk_uncapped(mal_count, sus_count) ==
  IF mal_count > 0 THEN 50 + mal_count * 15
  ELSE IF sus_count > 0 THEN 30 + sus_count * 15
  ELSE 20

FallbackRisk(mal_count, sus_count) ==
  IF mal_count > 0 THEN Min(85, 50 + mal_count * 15)
  ELSE IF sus_count > 0 THEN Min(65, 30 + sus_count * 15)
  ELSE 20

FallbackLevel(mal_count, sus_count, risk_score) ==
  IF mal_count > 0 THEN (IF risk_score >= 70 THEN "high" ELSE "medium")
  ELSE IF sus_count > 0 THEN "medium"
  ELSE "low"

\* ThreatAnalysisReport defaults: no tool results, risk_score 0, threat_level
\* "unknown"
FbIdle == [pc |-> "idle", verdict |-> <<>>,
           raw |-> "none", risk_score |-> 0, threat_level |-> "unknown",
           error |-> FALSE, status |-> "running"]

FbInit == fb = FbIdle

\* the tool results are in the report and the summarizer has answered
FbReceive ==
  /\ fb.pc = "idle"
  /\ \E verdict \in [ToolNames -> Verdicts], raw \in UndecodableKinds :
       fb' = [FbIdle EXCEPT !.pc = "parse", !.verdict = verdict, !.raw = raw]
  /\ UNCHANGED nonFbVars

\* except json.JSONDecodeError
FbParse ==
  /\ fb.pc = "parse"
  /\ LET mal_count == Count(fb.verdict, "malicious")
         sus_count == Count(fb.verdict, "suspicious")
         risk == FallbackRisk(mal_count, sus_count)
     IN fb' = IF fb.raw = "prose"
                THEN [fb EXCEPT !.pc = "finalize",
                                !.risk_score = risk,
                                !.threat_level =
                                   FallbackLevel(mal_count, sus_count, risk),
                                !.error = FALSE]
                ELSE [fb EXCEPT !.pc = "finalize", !.error = TRUE]
  /\ UNCHANGED nonFbVars

\* report.status = "complete" if not report.error else "failed"
FbFinalize ==
  /\ fb.pc = "finalize"
  /\ fb' = [fb EXCEPT !.pc = "done", !.status = FinalStatus(fb.error)]
  /\ UNCHANGED nonFbVars

FbNext == FbReceive \/ FbParse \/ FbFinalize

\* ======================================================================
\* screenshot_interval: the guest ScreenshotCollector and the host
\* _screenshot_loop of one analysis
\* ======================================================================
IntervalSpan == 4   \* submitted intervals range over -IntervalSpan..2+IntervalSpan
MaxWaits == 2       \* waits each capture loop performs

MinInterval == 2        \* start_capture: max(2, interval)

Intervals == (0 - IntervalSpan)..(MinInterval + IntervalSpan)

Max(a, b) == IF a >= b THEN a ELSE b

\* ScreenshotCollector.start_capture: self._interval = max(2, interval)
start_capture_interval(interval) == Max(MinInterval, interval)

\* guest: the _interval the capture loop waits on, 0 before start_capture;
\* guestWaits / hostWaits: the timeouts each loop has passed to wait()
SiIdle == [pc |-> "idle", screenshot_interval |-> 0, guest_interval |-> 0,
           guestStarted |-> FALSE, guestWaits |-> {}, hostWaits |-> {},
           nGuest |-> 0, nHost |-> 0]

SiInit == si = SiIdle

\* run_analysis(screenshot_interval=...): the value goes into the execute
\* request and into the host screenshot thread's arguments
SiSubmit ==
  /\ si.pc = "idle"
  /\ \E interval \in Intervals :
       si' = [SiIdle EXCEPT !.pc = "running", !.screenshot_interval = interval]
  /\ UNCHANGED nonSiVars

\* guest execute_sample: screenshot_c.start_capture(interval=screenshot_interval)
SiGuestStart ==
  /\ si.pc = "running"
  /\ ~si.guestStarted
  /\ si' = [si EXCEPT
       !.guestStarted = TRUE,
       !.guest_interval = start_capture_interval(si.screenshot_interval)]
  /\ UNCHANGED nonSiVars

\* guest _capture_loop: self._stop_event.wait(timeout=self._interval)
SiGuestWait ==
  /\ si.pc = "running"
  /\ si.guestStarted
  /\ si.nGuest < MaxWaits
  /\ si' = [si EXCEPT !.nGuest = @ + 1,
                      !.guestWaits = @ \cup {si.guest_interval}]
  /\ UNCHANGED nonSiVars

\* host _screenshot_loop: stop_event.wait(timeout=interval)
SiHostWait ==
  /\ si.pc = "running"
  /\ si.nHost < MaxWaits
  /\ si' = [si EXCEPT !.nHost = @ + 1,
                      !.hostWaits = @ \cup {si.screenshot_interval}]
  /\ UNCHANGED nonSiVars

SiNext == SiSubmit \/ SiGuestStart \/ SiGuestWait \/ SiHostWait

\* ======================================================================
\* Host: the analysis_id run_analysis builds
\* ======================================================================
MaxRuns == 3        \* run_analysis calls
MaxClock == 2       \* UTC seconds the clock advances through
MaxHex == 2         \* uuid4().hex[:8] ranges over 0..MaxHex

\* utcnow().strftime("%Y%m%d_%H%M%S") + "_" + uuid4().hex[:8]: two
\* fixed-width fields, so the ids compare as the pairs (second, hex) do
analysis_id(now, hex) == [ts |-> now, hex |-> hex]

IdLess(a, b) == a.ts < b.ts \/ (a.ts = b.ts /\ a.hex < b.hex)

\* now: the UTC second; ids: the analysis_id of each call, in start order
AiIdle == [now |-> 0, ids |-> <<>>]

AiInit == ai = AiIdle

\* a second passes
AiTick ==
  /\ ai.now < MaxClock
  /\ ai' = [ai EXCEPT !.now = @ + 1]
  /\ UNCHANGED nonAiVars

\* run_analysis starts: the clock is read and a uuid4 is drawn
AiRun ==
  /\ Len(ai.ids) < MaxRuns
  /\ \E hex \in 0..MaxHex :
       ai' = [ai EXCEPT !.ids = Append(@, analysis_id(ai.now, hex))]
  /\ UNCHANGED nonAiVars

AiNext == AiTick \/ AiRun


\* ======================================================================
\* Host: run_analysis from the execute request on, with the screenshot
\* thread it starts (_screenshot_loop)
\* ======================================================================
MaxCaptures == 2    \* captures one capture loop starts

\* threading.Event.wait(timeout): can the call run to its timeout while the
\* event is in the given state?  (time.sleep could, whatever the event.)
WaitTimesOut_sleep(eventSet) == TRUE

WaitTimesOut(eventSet) == ~eventSet

\* A capture loop: while not stop.is_set(): capture; stop.wait(interval).
\* lateCapture / lateWait record a capture started, or a full interval
\* waited, while the stop event was set.
NoLoop == [pc |-> "none", captures |-> 0, lateCapture |-> FALSE,
           lateWait |-> FALSE]

\* the loop condition "while not stop.is_set()": does the loop leave?
LoopExits_never(stopSet) == FALSE

LoopExits(stopSet) == stopSet

\* the next position of a loop at "test"
LoopTest(loop, stopSet) ==
  IF LoopExits(stopSet)
    THEN [loop EXCEPT !.pc = "exited"]
    ELSE [loop EXCEPT !.pc = "capturing", !.captures = @ + 1,
                      !.lateCapture = @ \/ stopSet]

\* the capture returns and the loop enters wait()
LoopCaptured(loop) == [loop EXCEPT !.pc = "waiting"]

\* wait() returns, by timeout (full) or because the event is set
LoopWoken(loop, stopSet, full) ==
  [loop EXCEPT !.pc = "test", !.lateWait = @ \/ (full /\ stopSet)]

HsIdle == [pc |-> "idle", polled |-> "none", status |-> "running",
           error |-> FALSE, stop |-> FALSE, loop |-> NoLoop]

HsInit == hs = HsIdle

\* step 3: POST /api/execute is answered
HsExecute(accepted) ==
  /\ hs.pc = "idle"
  /\ hs' = [hs EXCEPT !.pc = IF accepted THEN "start" ELSE "except"]
  /\ UNCHANGED nonHsVars

\* stop_screenshots = threading.Event(); screenshot_thread.start()
HsStartThread ==
  /\ hs.pc = "start"
  /\ hs' = [hs EXCEPT !.pc = "poll", !.loop = [NoLoop EXCEPT !.pc = "test"]]
  /\ UNCHANGED nonHsVars

\* _poll_agent_until_done returns: the agent reported idle or error
HsPollReturns(status) ==
  /\ hs.pc = "poll"
  /\ hs' = [hs EXCEPT !.pc = "stop", !.polled = status]
  /\ UNCHANGED nonHsVars

\* _poll_agent_until_done raises TimeoutError
HsPollTimeout ==
  /\ hs.pc = "poll"
  /\ hs' = [hs EXCEPT !.pc = "except", !.polled = "timeout"]
  /\ UNCHANGED nonHsVars

\* stop_screenshots.set()
HsStop ==
  /\ hs.pc = "stop"
  /\ hs' = [hs EXCEPT !.pc = "join", !.stop = TRUE]
  /\ UNCHANGED nonHsVars

\* screenshot_thread.join(timeout=15): the thread has ended, or a capture
\* (VBoxManage, timeout=15) outlasts the join
HsJoin ==
  /\ hs.pc = "join"
  /\ hs.loop.pc \in {"exited", "capturing"}
  /\ hs' = [hs EXCEPT !.pc = "retrieve"]
  /\ UNCHANGED nonHsVars

\* step 5: _retrieve_results, _find_result_zip, _count_sysmon_events
HsRetrieve(ok) ==
  /\ hs.pc = "retrieve"
  /\ hs' = [hs EXCEPT !.pc = IF ok THEN "complete" ELSE "except"]
  /\ UNCHANGED nonHsVars

\* result.status = "complete"
HsComplete ==
  /\ hs.pc = "complete"
  /\ hs' = [hs EXCEPT !.pc = "manifest", !.status = "complete"]
  /\ UNCHANGED nonHsVars

\* except Exception as exc: result.status = "failed"; result.error = str(exc)
HsExcept ==
  /\ hs.pc = "except"
  /\ hs' = [hs EXCEPT !.pc = "manifest", !.status = "failed", !.error = TRUE]
  /\ UNCHANGED nonHsVars

\* the manifest is written; return result
HsReturn ==
  /\ hs.pc = "manifest"
  /\ hs' = [hs EXCEPT !.pc = "returned"]
  /\ UNCHANGED nonHsVars

\* _screenshot_loop: while not stop_event.is_set(): self._take_screenshot(...)
HsLoopTest ==
  /\ hs.loop.pc = "test"
  /\ LoopExits(hs.stop) \/ hs.loop.captures < MaxCaptures
  /\ hs' = [hs EXCEPT !.loop = LoopTest(hs.loop, hs.stop)]
  /\ UNCHANGED nonHsVars

\* _take_screenshot returns; idx += 1
HsLoopCaptured ==
  /\ hs.loop.pc = "capturing"
  /\ hs' = [hs EXCEPT !.loop = LoopCaptured(hs.loop)]
  /\ UNCHANGED nonHsVars

\* stop_event.wait(timeout=interval) returns
HsLoopWoken ==
  /\ hs.loop.pc = "waiting"
  /\ \E full \in BOOLEAN :
       /\ full => WaitTimesOut(hs.stop)
       /\ ~full => hs.stop
       /\ hs' = [hs EXCEPT !.loop = LoopWoken(hs.loop, hs.stop, full)]
  /\ UNCHANGED nonHsVars

HsNext ==
  \/ \E accepted \in BOOLEAN : HsExecute(accepted)
  \/ HsStartThread
  \/ \E status \in {"idle", "error"} : HsPollReturns(status)
  \/ HsPollTimeout
  \/ HsStop
  \/ HsJoin
  \/ \E ok \in BOOLEAN : HsRetrieve(ok)
  \/ HsComplete
  \/ HsExcept
  \/ HsReturn
  \/ HsLoopTest
  \/ HsLoopCaptured
  \/ HsLoopWoken

\* ======================================================================
\* Guest: ScreenshotCollector across successive executions (start_capture,
\* stop_capture, _capture_loop threads)
\* ======================================================================
\* the loop threads of two successive executions on one collector
LoopIds == {1, 2}

\* threading.Thread.is_alive()
Alive(loop) == loop.pc \in {"test", "capturing", "waiting"}

ScIdle == [pc |-> "idle", event |-> FALSE, thread |-> 0, starts |-> 0,
           loops |-> [i \in LoopIds |-> NoLoop]]

ScInit == sc = ScIdle

\* start_capture: self._stop_event.clear(); self._capture_thread =
\* threading.Thread(target=self._capture_loop); self._capture_thread.start()
ScStart ==
  /\ sc.pc = "idle"
  /\ sc.starts < Cardinality(LoopIds)
  /\ sc' = [sc EXCEPT !.pc = "running", !.event = FALSE,
                      !.starts = @ + 1, !.thread = sc.starts + 1,
                      !.loops[sc.starts + 1] = [NoLoop EXCEPT !.pc = "test"]]
  /\ UNCHANGED nonScVars

\* execute_sample raises between start_capture and stop_capture: its except
\* block calls set_error only
ScRaise ==
  /\ sc.pc = "running"
  /\ sc' = [sc EXCEPT !.pc = "idle"]
  /\ UNCHANGED nonScVars

\* stop_capture: self._stop_event.set(); if the thread is alive, join it
ScStopSet ==
  /\ sc.pc = "running"
  /\ sc' = IF sc.thread # 0 /\ Alive(sc.loops[sc.thread])
             THEN [sc EXCEPT !.pc = "joining", !.event = TRUE]
             ELSE [sc EXCEPT !.pc = "idle", !.event = TRUE, !.thread = 0]
  /\ UNCHANGED nonScVars

\* join(timeout=15) returns because the thread has ended;
\* self._capture_thread = None
ScJoined ==
  /\ sc.pc = "joining"
  /\ ~Alive(sc.loops[sc.thread])
  /\ sc' = [sc EXCEPT !.pc = "idle", !.thread = 0]
  /\ UNCHANGED nonScVars

\* join(timeout=15) returns while a capture (powershell.exe, timeout=15) is
\* still in flight; self._capture_thread = None
ScJoinTimeout ==
  /\ sc.pc = "joining"
  /\ sc.loops[sc.thread].pc = "capturing"
  /\ sc' = [sc EXCEPT !.pc = "idle", !.thread = 0]
  /\ UNCHANGED nonScVars

\* _capture_loop: while not self._stop_event.is_set(): subprocess.run(...)
ScLoopTest(i) ==
  /\ sc.loops[i].pc = "test"
  /\ LoopExits(sc.event) \/ sc.loops[i].captures < MaxCaptures
  /\ sc' = [sc EXCEPT !.loops[i] = LoopTest(sc.loops[i], sc.event)]
  /\ UNCHANGED nonScVars

\* subprocess.run returns (or raises and is logged)
ScLoopCaptured(i) ==
  /\ sc.loops[i].pc = "capturing"
  /\ sc' = [sc EXCEPT !.loops[i] = LoopCaptured(sc.loops[i])]
  /\ UNCHANGED nonScVars

\* self._stop_event.wait(timeout=self._interval) returns
ScLoopWoken(i) ==
  /\ sc.loops[i].pc = "waiting"
  /\ \E full \in BOOLEAN :
       /\ full => WaitTimesOut(sc.event)
       /\ ~full => sc.event
       /\ sc' = [sc EXCEPT !.loops[i] = LoopWoken(sc.loops[i], sc.event, full)]
  /\ UNCHANGED nonScVars

ScNext ==
  \/ ScStart
  \/ ScRaise
  \/ ScStopSet
  \/ ScJoined
  \/ ScJoinTimeout
  \/ \E i \in LoopIds : ScLoopTest(i)
  \/ \E i \in LoopIds : ScLoopCaptured(i)
  \/ \E i \in LoopIds : ScLoopWoken(i)

\* ======================================================================
\* Host: _retrieve_results / _find_result_zip over the shared folder, across
\* successive analyses
\* ======================================================================
MaxAnalyses == 3    \* analyses run one after another

RtSamples == {"a.exe", "a.dll", "a_b.exe"}

\* os.path.splitext(sample_name)[0]
splitext0(sample) ==
  CASE sample = "a.exe" -> "a"
    [] sample = "a.dll" -> "a"
    [] sample = "a_b.exe" -> "a_b"

\* does glob "results_<base>_*.zip" match the name "results_<zipBase>_<ts>.zip"?
GlobMatches(base, zipBase) ==
  \/ zipBase = base
  \/ base = "a" /\ zipBase = "a_b"      \* "results_a_" is a prefix of "results_a_b_"

\* An archive in the share: the analysis whose guest execution wrote it and
\* the base in its name.  A later analysis's archive has the later mtime.
NoZip == 0

\* sorted(glob.glob(pattern), key=os.path.getmtime, reverse=True)[0], as the
\* run that wrote it; NoZip for None
find_result_zip(share, sample) ==
  LET matches == {z \in share : GlobMatches(splitext0(sample), z.base)}
  IN  IF matches = {} THEN NoZip
      ELSE (CHOOSE z \in matches : \A y \in matches : y.run <= z.run).run

RtIdle == [pc |-> "idle", run |-> 0, sample |-> "a.exe", share |-> {},
           agent |-> "none", extracted |-> NoZip, package |-> NoZip]

RtInit == rt = RtIdle

\* run_analysis starts on a sample: a new AnalysisResult, execute accepted
RtSubmit(sample) ==
  /\ rt.pc = "idle"
  /\ rt.run < MaxAnalyses
  /\ rt' = [rt EXCEPT !.pc = "guest", !.run = @ + 1, !.sample = sample,
                      !.agent = "none", !.extracted = NoZip,
                      !.package = NoZip]
  /\ UNCHANGED nonRtVars

\* the guest execution completes: _package_results copies
\* results_<base>_<ts>.zip to the share, then set_idle
RtGuestPackage ==
  /\ rt.pc = "guest"
  /\ rt' = [rt EXCEPT !.pc = "retrieve", !.agent = "idle",
                      !.share = @ \cup {[run |-> rt.run,
                                         base |-> splitext0(rt.sample)]}]
  /\ UNCHANGED nonRtVars

\* shutil.copy2 to the share fails (OSError is logged), then set_idle
RtGuestCopyFails ==
  /\ rt.pc = "guest"
  /\ rt' = [rt EXCEPT !.pc = "retrieve", !.agent = "idle"]
  /\ UNCHANGED nonRtVars

\* the guest execution ends in error before the package step
RtGuestError ==
  /\ rt.pc = "guest"
  /\ rt' = [rt EXCEPT !.pc = "retrieve", !.agent = "error"]
  /\ UNCHANGED nonRtVars

\* step 5, after the polling has returned on idle or on error:
\* collected = self._retrieve_results(...); result.agent_package =
\* self._find_result_zip(sample_name)
RtRetrieve ==
  /\ rt.pc = "retrieve"
  /\ rt' = [rt EXCEPT !.pc = "idle",
                      !.extracted = find_result_zip(rt.share, rt.sample),
                      !.package = find_result_zip(rt.share, rt.sample)]
  /\ UNCHANGED nonRtVars

RtNext ==
  \/ \E sample \in RtSamples : RtSubmit(sample)
  \/ RtGuestPackage
  \/ RtGuestCopyFails
  \/ RtGuestError
  \/ RtRetrieve

\* ======================================================================
\* One result package from the guest collectors, through _package_results
\* and _retrieve_results, to the host-side TOOL_LOADERS
\* ======================================================================
\* the collectors a loader reads from, in the order _run_collectors runs them
LkCollectors == <<"sysmon", "procmon", "network", "tcpvcon", "handle">>

CollectStatuses == {"ok", "no_data", "unavailable", "error"}

\* the file a collector writes and reports when its status is ok
OutputFile(c) ==
  CASE c = "sysmon" -> "sysmon_summary.json"
    [] c = "procmon" -> "procmon_summary.json"
    [] c = "network" -> "network_summary.json"
    [] c = "tcpvcon" -> "tcpvcon_snapshot.csv"
    [] c = "handle" -> "handle_snapshot.txt"

\* the file the collector's loader in TOOL_LOADERS reads under artifacts/
LoaderFile(c) ==
  CASE c = "sysmon" -> "sysmon_summary.json"
    [] c = "procmon" -> "procmon_summary.json"
    [] c = "network" -> "network_summary.json"
    [] c = "tcpvcon" -> "tcpvcon_snapshot.csv"
    [] c = "handle" -> "handle_snapshot.txt"

\* the text after the last dot of a name, dot included
Ext(f) ==
  CASE f \in {"sysmon_summary.json", "procmon_summary.json",
              "network_summary.json", "metadata.json"} -> ".json"
    [] f = "tcpvcon_snapshot.csv" -> ".csv"
    [] f = "handle_snapshot.txt" -> ".txt"

\* what the zip loop of _package_results writes of all_files:
\* not fpath.endswith((".pml", ".csv", ".pcap"))
Archived(all_files) ==
  {f \in all_files : Ext(f) \notin {".pml", ".csv", ".pcap"}}

\* a loader: (payload, has_data) for its file in the report directory
HasData(c, report) == IF LoaderFile(c) \in report THEN "yes" ELSE "no"

LkIdle == [pc |-> "collect", next |-> 1, status |-> <<>>, files |-> {},
           report |-> {}, hasData |-> <<>>]

LkInit == lk = LkIdle

\* _run_collectors: results.append(collector.collect())
LkCollect(st) ==
  /\ lk.pc = "collect"
  /\ LET c == LkCollectors[lk.next]
     IN  lk' = [lk EXCEPT
                  !.status = Append(@, st),
                  !.files = IF st = "ok" THEN @ \cup {OutputFile(c)} ELSE @,
                  !.next = IF lk.next = Len(LkCollectors) THEN 1 ELSE @ + 1,
                  !.pc = IF lk.next = Len(LkCollectors)
                           THEN "package" ELSE "collect"]
  /\ UNCHANGED nonLkVars

\* _package_results writes metadata.json, zips all_files and copies the
\* archive to the share; _retrieve_results extracts it into the report dir
LkPackageRetrieve ==
  /\ lk.pc = "package"
  /\ lk' = [lk EXCEPT !.pc = "load",
                      !.report = Archived(lk.files \cup {"metadata.json"})]
  /\ UNCHANGED nonLkVars

\* gather_tool_data: payload, has_data = loader(report_dir)
LkLoad ==
  /\ lk.pc = "load"
  /\ LET c == LkCollectors[lk.next]
     IN  lk' = [lk EXCEPT
                  !.hasData = Append(@, HasData(c, lk.report)),
                  !.next = IF lk.next = Len(LkCollectors) THEN 1 ELSE @ + 1,
                  !.pc = IF lk.next = Len(LkCollectors)
                           THEN "done" ELSE "load"]
  /\ UNCHANGED nonLkVars

LkNext ==
  \/ \E st \in CollectStatuses : LkCollect(st)
  \/ LkPackageRetrieve
  \/ LkLoad

\* ======================================================================
\* Guest: ProcmonCollector._parse_procmon_csv
\* ======================================================================
MaxCsvRows == 2     \* rows of one Procmon CSV
BucketCap == 80     \* paths kept per operation
ListCap == 50       \* network / process entries kept

\* Procmon operation names, as their words
Operations ==
  {<<"Create", "File">>, <<"Write", "File">>, <<"Read", "File">>,
   <<"Set", "Disposition", "Information", "File">>,
   <<"Reg", "Open", "Key">>, <<"Reg", "Query", "Value">>,
   <<"Reg", "Set", "Value">>, <<"Reg", "Create", "Key">>,
   <<"Reg", "Delete", "Key">>, <<"Reg", "Delete", "Value">>,
   <<"TCP", " ", "Connect">>, <<"UDP", " ", "Send">>,
   <<"Process", " ", "Start">>, <<"Thread", " ", "Exit">>,
   <<"Load", " ", "Image">>}

ProcessNames == {"a.exe", "svchost.exe"}
SampleProc == "a.exe"
Paths == {"p1", "p2"}

CsvRowsIn == [pname : ProcessNames, op : Operations, path : Paths]

\* k in op: the words of k occur in op, one after another
In(k, op) ==
  \E i \in 1..(Len(op) - Len(k) + 1) :
    \A j \in 1..Len(k) : op[i + j - 1] = k[j]

AnyIn(ks, op) == \E k \in ks : In(k, op)

FileWords == {<<"File">>, <<"Create">>, <<"Write">>, <<"Read">>,
              <<"Close">>, <<"Delete">>, <<"Directory">>, <<"Flush">>}
NetWords == {<<"TCP">>, <<"UDP">>}
ProcWords == {<<"Process">>, <<"Thread">>, <<"Load", " ", "Image">>}
NotableFileWords == {<<"Write">>, <<"Create">>, <<"Delete">>,
                     <<"Set", "Disposition">>, <<"Set", "Rename">>}
NotableRegWords == {<<"Set", "Value">>, <<"Create", "Key">>,
                    <<"Delete", "Key">>, <<"Delete", "Value">>}

\* the if / elif chain over the operation of a sample row
Bucket(op) ==
  IF AnyIn(FileWords, op) THEN "file"
  ELSE IF In(<<"Reg">>, op) THEN "registry"
  ELSE IF AnyIn(NetWords, op) THEN "network"
  ELSE IF AnyIn(ProcWords, op) THEN "process"
  ELSE "none"

\* bucket = ops.setdefault(op, []); if path not in bucket and
\* len(bucket) < 80: bucket.append(path)   (a dict as its (op, path) pairs)
AddPath(ops, op, path) ==
  IF Cardinality({e \in ops : e.op = op}) < BucketCap
    THEN ops \cup {[op |-> op, path |-> path]}
    ELSE ops

\* the entries of the operations that count as notable
Notable(ops, words) == {e \in ops : AnyIn(words, e.op)}

PmIdle == [pc |-> "reading", total |-> 0, sample |-> 0, seen |-> {},
           file_ops |-> {}, reg_ops |-> {}, net_ops |-> 0, proc_ops |-> 0,
           file_notable |-> {}, reg_notable |-> {}]

PmInit == pm = PmIdle

\* for row in reader: one row of the CSV
PmRow(row) ==
  /\ pm.pc = "reading"
  /\ pm.total < MaxCsvRows
  /\ IF row.pname # SampleProc
       THEN pm' = [pm EXCEPT !.total = @ + 1]
       ELSE LET b == Bucket(row.op)
            IN  pm' = [pm EXCEPT
                  !.total = @ + 1,
                  !.sample = @ + 1,
                  !.seen = @ \cup {[op |-> row.op, path |-> row.path]},
                  !.file_ops = IF b = "file"
                                 THEN AddPath(@, row.op, row.path) ELSE @,
                  !.reg_ops = IF b = "registry"
                                THEN AddPath(@, row.op, row.path) ELSE @,
                  !.net_ops = IF b = "network" /\ @ < ListCap
                                THEN @ + 1 ELSE @,
                  !.proc_ops = IF b = "process" /\ @ < ListCap
                                 THEN @ + 1 ELSE @]
  /\ UNCHANGED nonPmVars

\* the reader is exhausted: interesting_file, interesting_reg, the summary
PmSummary ==
  /\ pm.pc = "reading"
  /\ pm' = [pm EXCEPT !.pc = "done",
                      !.file_notable = Notable(pm.file_ops, NotableFileWords),
                      !.reg_notable = Notable(pm.reg_ops, NotableRegWords)]
  /\ UNCHANGED nonPmVars

PmNext ==
  \/ \E row \in CsvRowsIn : PmRow(row)
  \/ PmSummary


Init ==
  /\ AgentInit /\ HostInit /\ PollInit
  /\ PkgInit /\ ClnInit /\ RcInit /\ SmInit /\ TaInit /\ PjInit
  /\ LdInit /\ CjInit /\ NzInit /\ FbInit /\ SiInit /\ AiInit
  /\ HsInit /\ ScInit /\ RtInit /\ LkInit /\ PmInit

Next ==
  \/ StatusArrive
  \/ GetStatus
  \/ \E f \in Filenames \cup {None} : PostExecuteBegin(f)
  \/ PostCollectBegin
  \/ PostCleanup
  \/ SrvStep
  \/ \E t \in Threads : BgStep(t)

\* Spec: no screenshot is ever written (the capture loop's failure branch).
Spec == Init /\ [][Next]_vars

\* ArtifactSpec: the capture loop also writes screenshots.
ArtifactNext == Next \/ CaptureShot

ArtifactSpec == Init /\ [][ArtifactNext]_vars

\* Every started thread keeps running (the OS schedules it) and the server
\* thread finishes the handler it is in; requests need not arrive.
LiveSpec ==
  /\ Spec
  /\ \A t \in Threads : WF_vars(BgStep(t))
  /\ WF_vars(SrvStep)

\* HostSpec: concurrent submit requests and their run_analysis threads.
HostSpec == Init /\ [][HostNext]_vars

\* PollSpec: one call of _poll_agent_until_done against any agent.
PollSpec == Init /\ [][PollNext]_vars

\* PackageSpec: one packaging of an execution's results, with POST
\* /api/cleanup arriving at any point of it.
PackageSpec == Init /\ [][PkgNext]_vars

\* CleanupSpec: the artifacts directory under writes, locks and cleanup().
CleanupSpec == Init /\ [][ClnNext]_vars

\* CollectorsSpec: one call of _run_collectors, each collect() returning any
\* status or raising.
CollectorsSpec == Init /\ [][RcNext]_vars

\* SysmonSpec: the process-tree closure over any event stream.
SysmonSpec == Init /\ [][SmNext]_vars

\* AnalyzerSpec: one call of analyze_report; every loader, per-tool chat and
\* the summarizer chat can go either way.
AnalyzerSpec == Init /\ [][TaNext]_vars

\* ParseSpec: one numeric field of one LLM response through the parser.
ParseSpec == Init /\ [][PjNext]_vars

\* LoaderSpec: one loader on one backing file of any length near the budget.
LoaderSpec == Init /\ [][LdNext]_vars

\* CleanSpec: _clean_json_response applied once and twice to any short text.
CleanSpec == Init /\ [][CjNext]_vars

\* NormalizeSpec: each _normalize_* helper applied once and twice to any
\* short list of dicts, strings and other values.
NormalizeSpec == Init /\ [][NzNext]_vars

\* FallbackSpec: an undecodable summarizer response over every combination
\* of per-tool verdicts.
FallbackSpec == Init /\ [][FbNext]_vars

\* IntervalSpec: one analysis with any submitted screenshot_interval, the
\* guest and the host capture loops waiting in any order.
IntervalSpec == Init /\ [][SiNext]_vars

\* IdSpec: successive run_analysis calls against a clock that ticks in
\* seconds.
IdSpec == Init /\ [][AiNext]_vars

\* HostRunSpec: one run_analysis from the execute request to its return, the
\* screenshot thread running beside it.
HostRunSpec == Init /\ [][HsNext]_vars

\* the guest collector alone
GuestCaptureSpec == Init /\ [][ScNext]_vars

\* both capture loops: the host's and the guest's
CaptureSpec == Init /\ [][HsNext \/ ScNext]_vars

RetrieveSpec == Init /\ [][RtNext]_vars

LoaderFilesSpec == Init /\ [][LkNext]_vars

ProcmonSpec == Init /\ [][PmNext]_vars

TypeOK ==
  /\ state.status \in Statuses
  /\ state.execution_count \in 0..MaxCount

\* ======================================================================
\* Claims
\* ======================================================================

\* C1: every GET /api/status answered after an execute was acknowledged
\* carries a status of the four agent statuses, and never status idle
\* together with the execution_count that was read before an acknowledged
\* execute was submitted (the handler sets executing before it starts the
\* thread and before it acknowledges).
C1_StatusAfterAck ==
  (srv.pc = "respond" /\ srv.op = "status" /\ ackPre # {}) =>
    /\ srv.snap.status \in Statuses
    /\ ~(srv.snap.status = IDLE /\ srv.snap.execution_count \in ackPre)

\* a status probe after an acknowledged execute that reads idle (the run has
\* finished and the counter has moved on)
C1_Witness ==
  /\ srv.pc = "respond" /\ srv.op = "status" /\ ackPre # {}
  /\ srv.snap.status = IDLE

\* C2: an execute that finds the status executing is answered 409, one with
\* no filename 400; a rejected execute changes no field of the agent state
\* and starts no background thread.
C2_RejectedExecute ==
  [][(srv.pc = "accept" /\ srv'.op = "execute") =>
       /\ (state.status = EXECUTING) =>
            (srv'.pc = "respond" /\ srv'.code = 409)
       /\ (state.status # EXECUTING /\ srv'.filename = None) =>
            (srv'.pc = "respond" /\ srv'.code = 400)
       /\ (srv'.pc = "respond") =>
            (srv'.code \in {400, 409} /\ state' = state /\ bg' = bg)]_vars

\* a 409 has just been produced for an execute with a filename while a
\* background thread is running
C2_Witness ==
  /\ srv.pc = "respond" /\ srv.op = "execute" /\ srv.code = 409
  /\ srv.filename # None
  /\ NumLive > 0

\* C3: every answer to POST /api/collect is either the 409 conflict (status
\* was executing, no collector ran) or the collectors' statuses.
C3_CollectConflictOrRun ==
  (srv.pc = "respond" /\ srv.op = "collect") =>
    \/ srv.code = 409
    \/ (srv.code = 200 /\ srv.body = "collection")

\* the state operations that are a call of set_idle
SetIdleStep == (\E t \in Threads : BgSetIdle(t)) \/ CollectOnlySetIdle

\* C4: execution_count starts at 0 and changes only by set_idle, which adds
\* exactly one; every other step (set_executing, set_collecting, set_error
\* among them) leaves it unchanged.
C4_CounterCountsIdle ==
  /\ state.execution_count = 0
  /\ [][IF SetIdleStep
          THEN state'.execution_count = state.execution_count + 1
          ELSE state'.execution_count = state.execution_count]_vars

\* after one completed execution, a second one has ended in error and the
\* counter still reads 1
C4_Witness ==
  /\ state.status = ERROR
  /\ state.last_error = "exception"
  /\ state.execution_count = 1
  /\ NumLive = 0

\* C5: once an execute is acknowledged the status eventually is idle or error.
C5_EventuallyIdleOrError ==
  (srv.pc = "respond" /\ srv.op = "execute" /\ srv.code = 200)
    ~> (state.status \in {IDLE, ERROR})

\* C6: a status probe never waits for another command to finish: no GET
\* /api/status connection sits unanswered while POST /api/collect runs its
\* collectors.
C6_StatusNeverBlocks ==
  ~(statusWaiting /\ srv.op = "collect" /\ srv.pc = "c_run")

\* run_analysis has started and not yet returned
Active(r) == run[r].pc \notin {"idle", "done"}

\* C7: at most one run_analysis is active at a time.
C7_AtMostOneAnalysis ==
  Cardinality({r \in Runs : Active(r)}) <= 1

\* C8: the polling fails with timeout only once elapsed > max_wait.
C8_TimeoutOnlyPastBudget ==
  poll.pc = "timeout" => poll.elapsed > poll.max_wait

\* C9: the manifest of a run is written with status complete or failed, never
\* pending or running; a run in which a step raised returns with result
\* status failed, error set and its manifest written.
C9_FailedAndManifest ==
  \A r \in Runs :
    /\ manifest[r] \in {"none", "complete", "failed"}
    /\ run[r].pc = "done" =>
         /\ manifest[r] = result[r].status
         /\ manifest[r] # "none"
         /\ (run[r].raised # "none") =>
              (result[r].status = "failed" /\ result[r].error)
         /\ (run[r].raised = "none") =>
              (result[r].status = "complete" /\ ~result[r].error)

\* a run whose polling raised (timeout) has returned
C9_Witness ==
  \E r \in Runs :
    /\ run[r].pc = "done"
    /\ run[r].raised = "poll"
    /\ manifest[r] = "failed"

\* C10: a screenshot collect() that returns ok returns only paths that are on
\* disk when it returns.
C10_OkFilesExist ==
  /\ \A t \in Threads : bg[t].shot.status = "ok" => bg[t].shot.missing = {}
  /\ srv.shot.status = "ok" => srv.shot.missing = {}

\* C11: no entry of a result archive has a path ending in .pml, .csv or
\* .pcap, whatever files the collectors reported.
C11_NoRawInArchive ==
  \A e \in pkg.archive : Suffix[e.name] \notin {".pml", ".csv", ".pcap"}

\* an archive was built from a collection that reported a raw capture file
\* present on disk
C11_Witness ==
  /\ pkg.pc = "complete"
  /\ \E f \in pkg.collection \cap pkg.zipDisk :
       Suffix[f] \in {".pml", ".csv", ".pcap"}
  /\ pkg.archive # {}

\* C12: an execution that returns complete has an archive holding
\* artifacts/metadata.json, artifacts/analysis_summary.json and every
\* reported file that exists and is not excluded by the size policy, and the
\* archive is in the shared folder unless the copy failed.
C12_CompleteArchiveWhole ==
  pkg.pc = "complete" =>
    /\ relpath(ArtifactPath(MetaFile)) \in pkg.archive
    /\ relpath(ArtifactPath(SummaryFile)) \in pkg.archive
    /\ \A f \in pkg.collection :
         (f \in pkg.zipDisk /\ ~SkippedByPolicy(f)) =>
           relpath(ArtifactPath(f)) \in pkg.archive
    /\ pkg.shared \/ pkg.copyFailed

\* C13: right after cleanup() returns, the artifacts directory is present and
\* list_artifacts() is empty, whatever the directory held before.
C13_CleanupLeavesEmpty ==
  cln.pc = "cleaned" => (cln.present /\ cln.listed = {})

\* C14: _run_collectors builds one record per registered collector in
\* registry order; a collector whose collect() raised has a record with status
\* error and an error message, the collectors after it still run, and a
\* raising collect() never aborts the call.
C14_OneRecordPerCollector ==
  /\ Len(rc.results) = rc.i - 1
  /\ \A k \in 1..Len(rc.results) :
       /\ rc.results[k].collector = Registry[k]
       /\ k \in rc.raised =>
            (rc.results[k].status = "error" /\ rc.results[k].error)
  /\ rc.pc = "returned" => Len(rc.results) = Len(Registry)
  /\ rc.pc = "aborted" => rc.cause = "makedirs"

\* the call returned although the first and the last collector raised
C14_Witness ==
  /\ rc.pc = "returned"
  /\ 1 \in rc.raised
  /\ Len(Registry) \in rc.raised
  /\ rc.results[2].status = "ok"

\* the process ids reachable from the set S in at most n parent-to-child steps
RECURSIVE Descendants(_, _, _)
Descendants(events, S, n) ==
  IF n = 0 THEN S
  ELSE Descendants(events,
         S \cup {events[i].pid : i \in {j \in 1..Len(events) :
                    events[j].ppid \in S /\ events[j].pid # ""}},
         n - 1)

\* C15: when the fixed-point loop has ended, the sample-process set is exactly
\* the set of process ids reachable from the seeds by parent-to-child edges
\* (closed, and nothing else in it); the loop ends after at most one pass per
\* process id plus one, cyclic references included.
C15_SamplePidsAreClosure ==
  /\ sm.passes <= Cardinality(PidValues) + 1
  /\ sm.pc = "loop" /\ sm.passes = Cardinality(PidValues) + 1 => ~sm.changed
  /\ sm.pc = "done" =>
       /\ sm.sample_pids = Descendants(sm.all_events, SeedPids(sm.all_events),
                                       Cardinality(PidValues))
       /\ \A i \in 1..Len(sm.all_events) :
            ~(/\ sm.all_events[i].ppid \in sm.sample_pids
              /\ sm.all_events[i].pid # ""
              /\ sm.all_events[i].pid \notin sm.sample_pids)

\* a stream whose grandchild event precedes the child event, which precedes
\* the seed: two passes each add a process id
C15_Witness ==
  /\ sm.pc = "done"
  /\ sm.passes = 3
  /\ sm.sample_pids = {"p1", "p2", "p3"}
  /\ Cardinality(SeedPids(sm.all_events)) = 1

\* C16: when the summarizer call is issued no per-tool call is in flight or
\* still to be made, and the summarizer is called at most once.
C16_SummarizerAfterJoin ==
  /\ ta.summarizerCalls <= 1
  /\ ta.inflightAtSummary = {}
  /\ ta.pc = "summary_inflight" =>
       \A t \in ToolNames : ta.tool[t].st \notin {"queued", "inflight"}

\* the summarizer is in flight after several per-tool calls were dispatched
\* and one of them raised
C16_Witness ==
  /\ ta.pc = "summary_inflight"
  /\ Cardinality({t \in ToolNames : ta.tool[t].chatCalls = 1}) >= 2
  /\ \E t \in ToolNames : ta.tool[t].st = "raised"

\* C17: for an existing report directory every registered tool has exactly
\* one entry in tool_results, whatever calls failed; a tool whose chat raised
\* is recorded inconclusive, confidence 0, error set; the summarizer is still
\* called.
C17_OneResultPerTool ==
  (ta.pc = "returned" /\ ta.status # "pending" /\ ta.savedReport) =>
    /\ Len(ta.tool_results) = Len(ToolAgents)
    /\ \A t \in ToolNames :
         Cardinality({k \in 1..Len(ta.tool_results) :
                        ta.tool_results[k] = t}) = 1
    /\ \A t \in ToolNames :
         ta.tool[t].st = "raised" =>
           /\ ta.tool[t].result.verdict = "inconclusive"
           /\ ta.tool[t].result.confidence = 0
           /\ ta.tool[t].result.error
    /\ ta.summarizerCalls = 1

\* a run returned in which one tool's chat raised and another's succeeded
C17_Witness ==
  /\ ta.pc = "returned"
  /\ ta.savedReport
  /\ \E t \in ToolNames : ta.tool[t].st = "raised"
  /\ \E t \in ToolNames : ta.tool[t].st = "json"

\* C18: a run whose summarizer call raised ends failed with error set, keeps
\* every per-tool result and persists the report and the per-tool files; at
\* return the status is complete exactly when error is unset.
C18_SummarizerFailureKeepsResults ==
  ta.pc = "returned" =>
    /\ ta.status = "complete" <=> ~ta.error
    /\ ta.summarizerRaised =>
         /\ ta.status = "failed"
         /\ ta.error
         /\ {ta.tool_results[k] : k \in 1..Len(ta.tool_results)} = ToolNames
         /\ ta.savedReport
         /\ ta.savedTools = ToolNames

\* the summarizer raised after a per-tool call had succeeded
C18_Witness ==
  /\ ta.pc = "returned"
  /\ ta.summarizerRaised
  /\ \E t \in ToolNames : ta.tool[t].st = "json"

\* C19: a tool whose loader reported no data never has a chat call made for
\* it; its result is the default (inconclusive, confidence 0), and it is among
\* the responses handed to the summarizer.
C19_NoDataNoCall ==
  \A t \in ToolNames :
    (ta.tool[t].st # "unloaded" /\ ~ta.tool[t].has_data) =>
      /\ ta.tool[t].chatCalls = 0
      /\ ta.tool[t].result.verdict = "inconclusive"
      /\ ta.tool[t].result.confidence = 0
      /\ t \in ta.tool_responses
      /\ ta.pc \in {"summary_inflight", "finalize", "save", "returned"} =>
           t \in {ta.tool_results[k] : k \in 1..Len(ta.tool_results)}

\* the summarizer was called with one tool without data and one with
C19_Witness ==
  /\ ta.pc = "summary_inflight"
  /\ \E t \in ToolNames : ~ta.tool[t].has_data
  /\ \E t \in ToolNames : ta.tool[t].chatCalls = 1

\* C20: after parsing, the tool confidence, the risk score and the
\* classification confidence lie in 0..100 whatever number the model sent.
C20_ParsedInRange ==
  pj.pc = "done" => (pj.out >= 0 /\ pj.out <= 100)

\* C21: every payload a loader returns is at most MAX_TOOL_PAYLOAD_CHARS
\* characters long, the truncation marker included.
C21_PayloadWithinBudget ==
  ld.pc = "done" => ld.out.len <= MAX_TOOL_PAYLOAD_CHARS

\* C22: _clean_json_response is idempotent: cleaning a cleaned text changes
\* nothing, fenced and brace-free texts included.
C22_CleanIdempotent ==
  cj.pc = "done" => cj.twice = cj.once

\* C23: every normalizer is idempotent, and each element it returns has
\* exactly the key set of its shape.
C23_NormalizeIdempotent ==
  /\ nz.pc = "done" => nz.twice = nz.once
  /\ nz.pc \in {"normalized", "done"} =>
       \A i \in 1..Len(nz.once) :
         nz.once[i].kind = "dict" /\ KeysOf(nz.once[i].d) = ShapeKeys(nz.fn)

C23_Witness ==
  /\ nz.pc = "done"
  /\ Len(nz.items) = 2
  /\ Len(nz.once) = 1
  /\ nz.fn = "mitre"
  /\ nz.items[1].kind = "dict"
  /\ KeysOf(nz.items[1].d) = {"technique_id"}
  /\ nz.items[2].kind = "other"
  /\ nz.items[1].d["technique_id"] = "#7"
  /\ nz.once[1].d["id"] = "7"

\* C24: a non-empty undecodable summarizer response gives a risk derived from
\* the M malicious and S suspicious verdicts: min(85, 50 + 15M) with level
\* high from 70 up and medium below when M > 0; min(65, 30 + 15S) and medium
\* when M = 0 < S; 20 and low otherwise; and the report is not failed.
C24_FallbackRisk ==
  (fb.pc \in {"finalize", "done"} /\ fb.raw = "prose") =>
    LET M == Cardinality({t \in ToolNames : fb.verdict[t] = "malicious"})
        S == Cardinality({t \in ToolNames : fb.verdict[t] = "suspicious"})
    IN /\ M > 0 =>
            /\ fb.risk_score = (IF 50 + 15 * M < 85 THEN 50 + 15 * M ELSE 85)
            /\ fb.threat_level =
                 (IF fb.risk_score >= 70 THEN "high" ELSE "medium")
       /\ (M = 0 /\ S > 0) =>
            /\ fb.risk_score = (IF 30 + 15 * S < 65 THEN 30 + 15 * S ELSE 65)
            /\ fb.threat_level = "medium"
       /\ (M = 0 /\ S = 0) => (fb.risk_score = 20 /\ fb.threat_level = "low")
       /\ (M = 2 /\ S = 1) => (fb.risk_score = 80 /\ fb.threat_level = "high")
       /\ ~fb.error
       /\ fb.pc = "done" => fb.status = "complete"

C24_Witness ==
  /\ fb.pc = "done"
  /\ fb.raw = "prose"
  /\ Cardinality({t \in ToolNames : fb.verdict[t] = "malicious"}) = 3
  /\ Cardinality({t \in ToolNames : fb.verdict[t] = "suspicious"}) = 1
  /\ fb.risk_score = 85
  /\ fb.threat_level = "high"

\* C25: every wait between two captures, in the guest collector and in the
\* host screenshot task, lasts max(2, screenshot_interval) seconds.
C25_IntervalClamped ==
  \A w \in si.guestWaits \cup si.hostWaits :
    w = (IF si.screenshot_interval < 2 THEN 2 ELSE si.screenshot_interval)

\* C26: of any two run_analysis calls the later one gets the strictly
\* greater analysis_id, also when both start in the same UTC second.
C26_IdsOrderedByStart ==
  \A i, j \in 1..Len(ai.ids) : i < j => IdLess(ai.ids[i], ai.ids[j])

\* the sample of thread t has been launched and its packaging has not finished
InFlight(t) == bg[t].pc \in {"shotstart", "wait", "setcoll", "collect", "package"}

\* C27: at most one background detonation task exists at any time, whatever
\* status the earlier execution is in.
C27_OneDetonationTask ==
  Cardinality({t \in Threads : Live(t)}) <= 1

\* C28: while the status is idle and every accepted execute has been
\* acknowledged, no detonation task is between sample launch and the end of
\* packaging.
C28_IdleMeansExported ==
  (state.status = IDLE /\ srv.op # "execute") =>
    \A t \in Threads : ~InFlight(t)

Launched(t) ==
  bg[t].pc \in {"shotstart", "wait", "setcoll", "collect", "package", "setidle"}

\* C30: once the sample of an execution is launched, start has been called on
\* the screenshot collector by that execution.
C30_StartBeforeLaunch ==
  \A t \in Threads : Launched(t) => bg[t].pc # "shotstart"

\* C31: when run_analysis returns after having started the screenshot task,
\* the task's stop signal is set, on the success path and on every failure
\* path.
C31_ShotTaskStopped ==
  (hs.pc = "returned" /\ hs.loop.pc # "none") => hs.stop

\* C36: run_analysis records complete only when the last polled agent status
\* was idle; a polling that ended on error gives failed with error set.
C36_CompleteOnlyAfterIdle ==
  /\ hs.status = "complete" => hs.polled = "idle"
  /\ (hs.pc = "returned" /\ hs.polled = "error") =>
       (hs.status = "failed" /\ hs.error)


\* C32: every capture started during a guest execution has been stopped by
\* the time the execution ends: when no execute_sample call is running any
\* more, whether the last one ended in idle or in the except block, the
\* screenshot loop started in step 3b is no longer running.
C32_CapturesStopped ==
  NumLive = 0 => ~shotRunning

\* C37: when the named sample is absent from the share, the step of
\* execute_sample that resolves it sets status error and last_error, ends
\* the call there (nothing is launched, no capture is started, collect and
\* the package step are never reached) and leaves execution_count as it was.
C37_AbsentSample ==
  [][\A t \in Threads :
       (/\ bg[t].pc = "resolve"
        /\ bg'[t] # bg[t]
        /\ IsStr(bg[t].filename)
        /\ bg[t].filename \notin ShareFiles)
       => /\ state'.status = ERROR
          /\ state'.last_error = "not_found"
          /\ state'.execution_count = state.execution_count
          /\ bg'[t] = BgUnborn
          /\ shotRunning' = shotRunning
          /\ captured' = captured
          /\ disk' = disk]_vars

C37_Witness ==
  /\ state.status = ERROR
  /\ state.last_error = "not_found"
  /\ NumLive = 0
  /\ ~shotRunning

\* C39: in every reachable agent state status idle implies that
\* current_sample is None, and no step takes last_error from a set value
\* back to None.
C39_IdleNoSampleErrorSticks ==
  /\ [](state.status = IDLE => state.current_sample = None)
  /\ [][state.last_error # None => state'.last_error # None]_vars

C39_Witness ==
  /\ state.status = IDLE
  /\ state.last_error # None
  /\ state.execution_count > 0


C34_OneCaptureLoop ==
  Cardinality({i \in LoopIds : Alive(sc.loops[i])}) <= 1


\* C35: the archive the host extracts and records as agent_package for an
\* analysis was written by that analysis's own guest execution, never by an
\* earlier run or for another sample.
C35_OwnArchive ==
  /\ rt.extracted # NoZip => rt.extracted = rt.run
  /\ rt.package # NoZip => rt.package = rt.run


\* C38: every artifact file a host-side loader reads is one the package
\* includes: a collector that reported ok on the guest has a loader that
\* reports has_data on the host after retrieval.
C38_OkMeansHasData ==
  \A i \in 1..Len(lk.hasData) :
    lk.status[i] = "ok" => lk.hasData[i] = "yes"


\* C40: in the process-activity summary every sample row is bucketed by the
\* class of its operation: a sample row whose operation is a registry
\* operation (Reg...) is in the registry bucket and not in the file bucket,
\* and the rows with RegSetValue, RegCreateKey, RegDeleteKey or
\* RegDeleteValue appear under registry_activity.notable.
C40_RegistryRowsInRegistryBucket ==
  pm.pc = "done" =>
    \A e \in pm.seen :
      In(<<"Reg">>, e.op) =>
        /\ e \in pm.reg_ops
        /\ e \notin pm.file_ops
        /\ AnyIn(NotableRegWords, e.op) =>
             (e \in pm.reg_notable /\ e \notin pm.file_notable)

====
